---- MODULE Spec2Model ----
(***************************************************************************)
(* Model of the White River Basin dam scraper: the record assembler        *)
(* (fetchDamData), the history merger and the snapshot publisher            *)
(* (fetchDamDetails), in the five-dam revision (src/fetch-norfork.js) and   *)
(* the six-dam revision (src/unnamed/part_002).                             *)
(*                                                                         *)
(* Time is counted in minutes since the Unix epoch (the source counts       *)
(* milliseconds; 32-bit integers do not hold them).  Physical quantities    *)
(* with two decimals (water level, precipitation) are integers in           *)
(* hundredths; flows, energy and storage volume are integers in tenths.     *)
(* A JavaScript Map is a TLA+ function whose DOMAIN is its                  *)
(* key set; "null / undefined / no file" is the empty sequence and a        *)
(* present object is a one-element sequence.                                *)
(*                                                                         *)
(* Specification Spec covers runs in which the file system works and every  *)
(* provider timestamp parses to an instant.  SpecFs adds the failures of    *)
(* the file system; SpecUnit calls the pure functions on their own;         *)
(* SpecAdapter follows one call of the adapter fetchUSACEData through its   *)
(* requests, and SpecAdapterFair adds that every request settles.           *)
(***************************************************************************)
EXTENDS Integers, Sequences, FiniteSets, TLC

\* ------------------------------------------------------------------ bounds
\* number of scheduled runs explored
MaxRuns == 2
\* number of half-hour ticks from which provider readings are drawn
MaxTick == 3
\* longest provider series (readings per metric and request)
MaxReadings == 2
\* number of 2.5 ft steps above the flood pool offered to the storage curve
MaxSurchargeSteps == 5
\* number of consecutive hours offered to fetchDamData and to the gap fillers
MaxHours == 2
\* number of consecutive hours offered to the gap fillers
MaxFillHours == 3

\* --------------------------------------------------------------- constants
\* 2025-06-10T15:00:00Z, the example instant of the specification, in minutes
BaseTs == 29159460
\* minutes between two ticks
TickLen == 30
\* minutes per clock hour (60 * 60 * 1000 ms)
HourLen == 60
\* the fixed Central Time offset, 5 hours, in minutes
OffsetMin == 300
Timestamps == { BaseTs + TickLen * k : k \in 0 .. (MaxTick - 1) }
\* water-level readings offered by the provider, hundredths of a foot
WaterLevels == { 55210 }
\* inflow readings offered by the provider, tenths of a cfs
Inflows == { 120 }
\* cumulative precipitation readings offered by the provider, hundredths of an inch
Precips == { 12 }

\* the dams of the model: two of the configured dams, in configuration order
damNames == << "norfork", "beaver" >>

damId(damName) ==
  IF damName = "norfork" THEN "1"
  ELSE IF damName = "bullshoals" THEN "2"
  ELSE IF damName = "greersferry" THEN "3"
  ELSE IF damName = "tablerock" THEN "4"
  ELSE "5"

Names(damName) ==
  IF damName = "norfork" THEN "Norfork"
  ELSE IF damName = "beaver" THEN "Beaver"
  ELSE damName

DisplayNames == { Names(damNames[i]) : i \in 1 .. Len(damNames) }

\* parseInt of a dam id
parseIntId(id) ==
  CASE id = "1" -> 1 [] id = "2" -> 2 [] id = "3" -> 3
    [] id = "4" -> 4 [] id = "5" -> 5 [] OTHER -> 6

\* ------------------------------------------------------------ conversions
EmptyMap == << >>

RECURSIVE SortAsc(_)
\* Array.from(set).sort(): ascending sequence of a finite set of integers
SortAsc(S) ==
  IF S = {} THEN << >>
  ELSE LET m == CHOOSE x \in S : \A y \in S : x <= y
       IN << m >> \o SortAsc(S \ {m})

RECURSIVE Reverse(_)
Reverse(s) == IF s = << >> THEN << >> ELSE Reverse(Tail(s)) \o << Head(s) >>

\* the hourly key of an instant: the clock hour of (instant - 5 h).  The
\* source formats it as the zero-padded string YYYY-MM-DD-HH of the local
\* clock of the process; in a process whose zone is UTC (the scheduled
\* runner) the string order of these keys is the order of the hour number
\* kept here.  keyString below builds the string itself, in any zone.
KeyOf(timestamp) == (timestamp - OffsetMin) \div HourLen

Pad2(n) == IF n < 10 THEN "0" \o ToString(n) ELSE ToString(n)

\* Number.prototype.toFixed(2) of a value held in hundredths
toFixed2(h) == ToString(h \div 100) \o "." \o Pad2(h % 100)

\* Math.round of a value held in tenths: the nearest integer, a half goes up
MathRound(x) == (x + 5) \div 10

\* Math.round(x).toString() of a value held in tenths
roundString(x) == ToString(MathRound(x))

Max(a, b) == IF a >= b THEN a ELSE b

\* A map entry { value, originalTimestamp }.  An entry whose value is null
\* is the record without the field value.
hasValue(entry) == "value" \in DOMAIN entry

\* the number an arithmetic operator, a comparison or Math.round reads from
\* the value of an entry: null reads as 0
numberOf(entry) == IF hasValue(entry) THEN entry.value ELSE 0

\* the entry with its value set to null
nullEntry(entry) == [originalTimestamp |-> entry.originalTimestamp]

RECURSIVE dataMapOf(_)
\* the forEach of fetchUSACEData: later readings of the same hour overwrite
dataMapOf(values) ==
  IF values = << >> THEN EmptyMap
  ELSE LET n    == Len(values)
           rest == dataMapOf(SubSeq(values, 1, n - 1))
           last == values[n]
           key  == KeyOf(last.timestamp)
           ent  == [value |-> last.value, originalTimestamp |-> last.timestamp]
       IN [k \in (DOMAIN rest) \cup {key} |-> IF k = key THEN ent ELSE rest[k]]

\* the set of all keys of the metric maps of one dam
allTimestampsOf(usaceData) ==
  UNION { DOMAIN usaceData[m] : m \in DOMAIN usaceData }

\* Number.prototype.toLocaleString() of a non-negative integer below 10^9
Pad3(n) == IF n < 10 THEN "00" \o ToString(n) ELSE IF n < 100 THEN "0" \o ToString(n) ELSE ToString(n)

toLocaleString(n) ==
  IF n < 1000 THEN ToString(n)
  ELSE IF n < 1000000 THEN ToString(n \div 1000) \o "," \o Pad3(n % 1000)
  ELSE ToString(n \div 1000000) \o "," \o Pad3((n \div 1000) % 1000)
         \o "," \o Pad3(n % 1000)

\* Number.prototype.toFixed(3) of a value held in thousandths
toFixed3(t) == ToString(t \div 1000) \o "." \o Pad3(t % 1000)

\* variant: no test of the divisor; 1 / 0 is Infinity
turbineEfficiencyUnguarded(powerGen, turbineFlow) ==
  IF turbineFlow # 0
  THEN toFixed3((2000 * powerGen + turbineFlow) \div (2 * turbineFlow))
  ELSE "Infinity"

\* turbineFlow > 0 ? (powerGen / turbineFlow).toFixed(3) : '0.000'
turbineEfficiencyOf(powerGen, turbineFlow) ==
  IF turbineFlow > 0
  THEN toFixed3((2000 * powerGen + turbineFlow) \div (2 * turbineFlow))
  ELSE "0.000"

\* ----------------------------------------------------------- storage curve
\* the dams configured in damSpecs, per revision
configuredDams(revision) ==
  IF revision = "five-dam"
  THEN { "norfork", "bullshoals", "greersferry", "tablerock", "beaver" }
  ELSE { "norfork", "bullshoals", "greersferry", "tablerock", "beaver", "clearwater" }

\* damSpecs[damName]: the levels the storage functions read, in hundredths
\* of a foot (parseFloat of the configured strings)
damSpecs(revision, damName) ==
  CASE damName = "norfork" ->
         [MWL |-> 58000, floodPool |-> 58000, deadStorageLevel |-> 38000]
    [] damName = "bullshoals" ->
         [MWL |-> 69500, floodPool |-> 69500, deadStorageLevel |-> 44800]
    [] damName = "greersferry" ->
         IF revision = "five-dam"
         THEN [MWL |-> 47000, floodPool |-> 47000, deadStorageLevel |-> 38000]
         ELSE [MWL |-> 48700, floodPool |-> 48700, deadStorageLevel |-> 38000]
    [] damName = "tablerock" ->
         [MWL |-> 93100, floodPool |-> 93100, deadStorageLevel |-> 82000]
    [] damName = "beaver" ->
         [MWL |-> 113000, floodPool |-> 113000, deadStorageLevel |-> 100000]
    [] OTHER ->
         [MWL |-> 56700, floodPool |-> 56700, deadStorageLevel |-> 28000]

\* damName === 'bullshoals' ? 2.5 : damName === 'tablerock' ? 2.3 : 2.2, in tenths
exponentOf(damName) ==
  IF damName = "bullshoals" THEN 25 ELSE IF damName = "tablerock" THEN 23 ELSE 22

\* Math.pow(depthRatio, exponent) for depthRatio = k / 10 and the three
\* exponents, in millionths (the double rounded to six decimals)
MathPow(k, exponent) ==
  CASE exponent = 22 ->
         << 0, 6310, 28991, 70740, 133209, 217638, 325037, 456263, 612066,
            793110, 1000000 >>[k + 1]
    [] exponent = 23 ->
         << 0, 5012, 24681, 62716, 121545, 203063, 308850, 440276, 598559,
            784798, 1000000 >>[k + 1]
    [] exponent = 25 ->
         << 0, 3162, 17889, 49295, 101193, 176777, 278855, 409963, 572433,
            768433, 1000000 >>[k + 1]

Min(a, b) == IF a <= b THEN a ELSE b

\* (level - deadLevel) / (floodPool - deadLevel) in tenths; the levels of the
\* model lie on the tenths of the pool depth
depthRatioOf(level, specs) ==
  ((level - specs.deadStorageLevel) * 10)
    \div (specs.floodPool - specs.deadStorageLevel)

\* variant: the ratio is not multiplied by 100
storagePercentageAsFraction(revision, waterLevel, specs, damName) ==
  IF waterLevel <= specs.deadStorageLevel THEN 0
  ELSE IF waterLevel <= specs.floodPool
  THEN ((waterLevel - specs.deadStorageLevel) * 100)
         \div (specs.floodPool - specs.deadStorageLevel)
  ELSE 10000

\* the number calculateStoragePercentage formats, in hundredths of a percent,
\* rounded as toFixed(2) rounds it
storagePercentageOf(revision, waterLevel, specs, damName) ==
  LET level     == waterLevel
      floodPool == specs.floodPool
      mwl       == specs.MWL
      deadLevel == specs.deadStorageLevel
  IN IF waterLevel = 0 THEN 0
     ELSE IF level <= deadLevel THEN 0
     ELSE IF level <= floodPool
     THEN IF revision = "five-dam"
          THEN LET storageRatio == MathPow(depthRatioOf(level, specs),
                                           exponentOf(damName))
               IN Max(0, Min(10000, (storageRatio + 50) \div 100))
          ELSE LET depth == floodPool - deadLevel
               IN Max(0, Min(10000,
                    (20000 * (level - deadLevel) + depth) \div (2 * depth)))
     ELSE IF revision = "five-dam"
     THEN LET surchargeDepth    == level - floodPool
              maxSurchargeDepth == mwl - floodPool
          IN IF maxSurchargeDepth > 0
             THEN Min(11500,
                      10000 + (3000 * Min(surchargeDepth, maxSurchargeDepth)
                                 + maxSurchargeDepth) \div (2 * maxSurchargeDepth))
             ELSE 10000
     ELSE 10000

calculateStoragePercentage(revision, waterLevel, specs, damName) ==
  toFixed2(storagePercentageOf(revision, waterLevel, specs, damName))

\* floodPoolStorage of calculateLiveStorage, acre-feet
floodPoolStorageOf(damName) ==
  CASE damName = "bullshoals" -> 5760000
    [] damName = "greersferry" -> 1400000
    [] damName = "tablerock" -> 3462000
    [] damName = "beaver" -> 2250000
    [] damName = "clearwater" -> 210000
    [] OTHER -> 2580000

\* Math.round(floodPoolStorage * ratio) for a ratio held in millionths; the
\* product is taken in two parts to stay within 32 bits (every
\* floodPoolStorage is a multiple of 1000)
scaleStorage(floodPoolStorage, ratio) ==
  LET thousands == floodPoolStorage \div 1000
  IN thousands * (ratio \div 1000) + (thousands * (ratio % 1000) + 500) \div 1000

calculateLiveStorage(waterLevel, specs, damName) ==
  LET level            == waterLevel
      floodPool        == specs.floodPool
      deadLevel        == specs.deadStorageLevel
      floodPoolStorage == floodPoolStorageOf(damName)
  IN IF waterLevel = 0 THEN "0"
     ELSE IF level <= deadLevel THEN "0"
     ELSE IF level <= floodPool
     THEN toLocaleString(scaleStorage(floodPoolStorage,
            MathPow(depthRatioOf(level, specs), exponentOf(damName))))
     ELSE LET surchargeDepth == level - floodPool
              surchargeRatio == Min(1000000, surchargeDepth * 1000)
          IN toLocaleString(floodPoolStorage
               + scaleStorage(floodPoolStorage, (surchargeRatio * 15) \div 100))

\* ------------------------------------------------------------- gap filler
RECURSIVE fillPassStale(_, _, _, _)
\* variant: lastValue is set by the first reading only
fillPassStale(sortedTimestamps, filledMap, lastValue, fillCount) ==
  IF sortedTimestamps = << >>
  THEN [filledMap |-> filledMap, fillCount |-> fillCount]
  ELSE LET timestamp == Head(sortedTimestamps)
           rest      == Tail(sortedTimestamps)
       IN IF timestamp \in DOMAIN filledMap
          THEN fillPassStale(rest, filledMap,
                             IF lastValue = << >> THEN << filledMap[timestamp] >>
                             ELSE lastValue, fillCount)
          ELSE IF lastValue # << >>
          THEN fillPassStale(rest, (timestamp :> lastValue[1]) @@ filledMap,
                             lastValue, fillCount + 1)
          ELSE fillPassStale(rest, filledMap, lastValue, fillCount)

RECURSIVE fillPass(_, _, _, _)
\* the forEach of forwardFillRainfall over the ascending keys; lastValue is
\* << >> for null and << entry >> otherwise
fillPass(sortedTimestamps, filledMap, lastValue, fillCount) ==
  IF sortedTimestamps = << >>
  THEN [filledMap |-> filledMap, fillCount |-> fillCount]
  ELSE LET timestamp == Head(sortedTimestamps)
           rest      == Tail(sortedTimestamps)
       IN IF timestamp \in DOMAIN filledMap
          THEN fillPass(rest, filledMap, << filledMap[timestamp] >>, fillCount)
          ELSE IF lastValue # << >>
          THEN fillPass(rest, (timestamp :> lastValue[1]) @@ filledMap,
                        lastValue, fillCount + 1)
          ELSE fillPass(rest, filledMap, lastValue, fillCount)

forwardFillRainfall(precipitationMap, allTimestamps) ==
  fillPass(SortAsc(allTimestamps), precipitationMap, << >>, 0)

RECURSIVE incrementPassSigned(_, _, _, _)
\* variant: the difference is not clamped at 0
incrementPassSigned(sortedTimestamps, filledMap, incrementalMap, previousValue) ==
  IF sortedTimestamps = << >> THEN incrementalMap
  ELSE LET timestamp == Head(sortedTimestamps)
           rest      == Tail(sortedTimestamps)
       IN IF timestamp \in DOMAIN filledMap
          THEN LET currentReading == filledMap[timestamp]
                   currentValue   == numberOf(currentReading)
                   increment      == IF previousValue # << >>
                                     THEN currentValue - previousValue[1]
                                     ELSE 0
                   ent == [value |-> increment,
                           originalTimestamp |-> currentReading.originalTimestamp]
               IN incrementPassSigned(rest, filledMap,
                                      (timestamp :> ent) @@ incrementalMap,
                                      IF hasValue(currentReading)
                                      THEN << currentValue >> ELSE << >>)
          ELSE incrementPassSigned(rest, filledMap, incrementalMap, previousValue)

RECURSIVE incrementPassFirstCounts(_, _, _, _)
\* variant: the first reading counts in full, as if the counter came from 0
incrementPassFirstCounts(sortedTimestamps, filledMap, incrementalMap, previousValue) ==
  IF sortedTimestamps = << >> THEN incrementalMap
  ELSE LET timestamp == Head(sortedTimestamps)
           rest      == Tail(sortedTimestamps)
       IN IF timestamp \in DOMAIN filledMap
          THEN LET currentReading == filledMap[timestamp]
                   currentValue   == numberOf(currentReading)
                   increment      == IF previousValue # << >>
                                     THEN Max(0, currentValue - previousValue[1])
                                     ELSE currentValue
                   ent == [value |-> increment,
                           originalTimestamp |-> currentReading.originalTimestamp]
               IN incrementPassFirstCounts(rest, filledMap,
                                           (timestamp :> ent) @@ incrementalMap,
                                           IF hasValue(currentReading)
                                           THEN << currentValue >> ELSE << >>)
          ELSE incrementPassFirstCounts(rest, filledMap, incrementalMap, previousValue)

RECURSIVE incrementPass(_, _, _, _)
\* the second forEach of processIncrementalRainfall; previousValue is << >>
\* for null and << value >> otherwise
incrementPass(sortedTimestamps, filledMap, incrementalMap, previousValue) ==
  IF sortedTimestamps = << >> THEN incrementalMap
  ELSE LET timestamp == Head(sortedTimestamps)
           rest      == Tail(sortedTimestamps)
       IN IF timestamp \in DOMAIN filledMap
          THEN LET currentReading == filledMap[timestamp]
                   currentValue   == numberOf(currentReading)
                   increment      == IF previousValue # << >>
                                     THEN Max(0, currentValue - previousValue[1])
                                     ELSE 0
                   ent == [value |-> increment,
                           originalTimestamp |-> currentReading.originalTimestamp]
               IN incrementPass(rest, filledMap, (timestamp :> ent) @@ incrementalMap,
                                IF hasValue(currentReading)
                                THEN << currentValue >> ELSE << >>)
          ELSE incrementPass(rest, filledMap, incrementalMap, previousValue)

RECURSIVE incrementRaises(_, _, _, _)
\* The second forEach of processIncrementalRainfall raises a TypeError when
\* one of its log lines calls toFixed on a null currentValue: the line of the
\* first reading (previousValue === null), and the debug line of the next
\* readings while debugCount < 5.
incrementRaises(sortedTimestamps, filledMap, previousValue, debugCount) ==
  IF sortedTimestamps = << >> THEN FALSE
  ELSE LET timestamp == Head(sortedTimestamps)
           rest      == Tail(sortedTimestamps)
       IN IF timestamp \in DOMAIN filledMap
          THEN LET currentReading == filledMap[timestamp]
                   next == IF hasValue(currentReading)
                           THEN << currentReading.value >> ELSE << >>
               IN IF previousValue # << >>
                  THEN IF debugCount < 5
                       THEN \/ ~hasValue(currentReading)
                            \/ incrementRaises(rest, filledMap, next, debugCount + 1)
                       ELSE incrementRaises(rest, filledMap, next, debugCount)
                  ELSE \/ ~hasValue(currentReading)
                       \/ incrementRaises(rest, filledMap, next, debugCount)
          ELSE incrementRaises(rest, filledMap, previousValue, debugCount)

processIncrementalRainfall(precipitationMap, allTimestamps) ==
  LET filled == forwardFillRainfall(precipitationMap, allTimestamps)
  IN [incrementalMap |-> incrementPass(SortAsc(allTimestamps), filled.filledMap,
                                       EmptyMap, << >>),
      fillCount |-> filled.fillCount]

\* ------------------------------------------------------- record assembler
\* the two revisions of the program
Revisions == { "five-dam", "six-dam" }

\* One record of fetchDamData for the hour key `timestamp`.  precipMap is the
\* forward-filled cumulative map (five-dam) or the incremental map (six-dam).
\* Of the source's fields, storagePercentage, dataSource, lakeWaterTemp and
\* lakeWaterTempSource are left out: they are non-empty strings different
\* from '0' and 'N/A' for every input.  Of the fields of damData, officialName,
\* FRL, liveStorageAtFRL, the alert levels and the coordinates are left out:
\* the program sets, copies and refreshes them together with MWL.
\* variant: the inflow reading is asked first for the source timestamp
originalUTCTimestampInflowFirst(usaceData, timestamp) ==
  LET has(m) == timestamp \in DOMAIN usaceData[m]
  IN IF has("inflow") THEN usaceData.inflow[timestamp].originalTimestamp
     ELSE IF has("waterLevel") THEN usaceData.waterLevel[timestamp].originalTimestamp
     ELSE IF has("outflow") THEN usaceData.outflow[timestamp].originalTimestamp
     ELSE timestamp * HourLen + OffsetMin

\* originalUTCTimestamp: the source timestamp of the water-level reading of
\* the hour, else of the inflow reading, else of the outflow reading, else
\* the instant written from the key, hour + 5
originalUTCTimestampOf(usaceData, timestamp) ==
  LET has(m) == timestamp \in DOMAIN usaceData[m]
  IN IF has("waterLevel") THEN usaceData.waterLevel[timestamp].originalTimestamp
     ELSE IF has("inflow") THEN usaceData.inflow[timestamp].originalTimestamp
     ELSE IF has("outflow") THEN usaceData.outflow[timestamp].originalTimestamp
     ELSE timestamp * HourLen + OffsetMin

dataPointOf(usaceData, precipMap, timestamp) ==
  LET has(m)          == timestamp \in DOMAIN usaceData[m]
      valueOf(m)      == IF has(m) THEN numberOf(usaceData[m][timestamp]) ELSE 0
      waterLevel      == valueOf("waterLevel")
      inflow          == valueOf("inflow")
      totalOutflow    == valueOf("outflow")
      spillwayFlow    == valueOf("spillway")
      powerGen        == valueOf("power")
      storageAcreFeet == valueOf("storage")
      precipitation   == IF timestamp \in DOMAIN precipMap
                         THEN numberOf(precipMap[timestamp]) ELSE 0
      turbineFlow     == Max(0, totalOutflow - spillwayFlow)
      originalUTCTimestamp == originalUTCTimestampOf(usaceData, timestamp)
  IN [date                     |-> ToString(timestamp \div 24),
      time                     |-> Pad2(timestamp % 24) \o ":00",
      waterLevel               |-> toFixed2(waterLevel),
      liveStorage              |-> toLocaleString(MathRound(storageAcreFeet)),
      inflow                   |-> roundString(inflow),
      powerHouseDischarge      |-> roundString(turbineFlow),
      spillwayRelease          |-> roundString(spillwayFlow),
      totalOutflow             |-> roundString(totalOutflow),
      powerGeneration          |-> roundString(powerGen),
      rainfall                 |-> toFixed2(precipitation),
      timestamp                |-> originalUTCTimestamp,
      netFlow                  |-> MathRound(inflow - totalOutflow),
      turbineEfficiency        |-> turbineEfficiencyOf(powerGen, turbineFlow),
      hasForwardFilledRainfall |-> (timestamp \notin DOMAIN usaceData.precipitation)
                                     /\ (timestamp \in DOMAIN precipMap)]

RECURSIVE allDataPointsOfPresent(_, _, _)
\* variant: only a missing water level is skipped, not one that is <= 0
allDataPointsOfPresent(usaceData, precipMap, sortedTimestamps) ==
  IF sortedTimestamps = << >> THEN << >>
  ELSE LET timestamp == Head(sortedTimestamps)
           rest == allDataPointsOfPresent(usaceData, precipMap, Tail(sortedTimestamps))
       IN IF timestamp \notin DOMAIN usaceData.waterLevel
          THEN rest
          ELSE << dataPointOf(usaceData, precipMap, timestamp) >> \o rest

RECURSIVE allDataPointsOf(_, _, _)
\* the loop of fetchDamData over the keys, newest first; a key without a
\* positive water level is skipped
allDataPointsOf(usaceData, precipMap, sortedTimestamps) ==
  IF sortedTimestamps = << >> THEN << >>
  ELSE LET timestamp == Head(sortedTimestamps)
           rest == allDataPointsOf(usaceData, precipMap, Tail(sortedTimestamps))
       IN IF timestamp \notin DOMAIN usaceData.waterLevel
             \/ numberOf(usaceData.waterLevel[timestamp]) <= 0
          THEN rest
          ELSE << dataPointOf(usaceData, precipMap, timestamp) >> \o rest

\* A statement inside the try block of fetchDamData raises a TypeError:
\* five-dam, precipitation.toFixed(2) on a null value at an hour that passed
\* the water-level test; six-dam, a log line of processIncrementalRainfall.
raisesTypeError(rev, usaceData, allTimestamps) ==
  LET filledMap == forwardFillRainfall(usaceData.precipitation, allTimestamps).filledMap
  IN IF rev = "five-dam"
     THEN \E timestamp \in allTimestamps :
            /\ timestamp \in DOMAIN usaceData.waterLevel
            /\ numberOf(usaceData.waterLevel[timestamp]) > 0
            /\ timestamp \in DOMAIN filledMap
            /\ ~hasValue(filledMap[timestamp])
     ELSE incrementRaises(SortAsc(allTimestamps), filledMap, << >>, 0)

\* fetchDamData after its fetches: << >> for null, << damData >> otherwise;
\* the catch block turns every error raised in the try block into null
fetchDamData(rev, damName, usaceData) ==
  LET allTimestamps == allTimestampsOf(usaceData)
      precipMap ==
        IF rev = "five-dam"
        THEN forwardFillRainfall(usaceData.precipitation, allTimestamps).filledMap
        ELSE processIncrementalRainfall(usaceData.precipitation,
                                        allTimestamps).incrementalMap
      sortedTimestamps == Reverse(SortAsc(allTimestamps))
      allDataPoints == allDataPointsOf(usaceData, precipMap, sortedTimestamps)
  IN IF allTimestamps = {} THEN << >>
     ELSE IF raisesTypeError(rev, usaceData, allTimestamps) THEN << >>
     ELSE IF allDataPoints = << >> THEN << >>
     ELSE << [id   |-> damId(damName),
              name |-> Names(damName),
              MWL  |-> toFixed2(damSpecs(rev, damName).MWL),
              data |-> allDataPoints] >>

\* the provider's answer for one metric: at most MaxReadings readings
RECURSIVE SeqsUpTo(_, _)
SeqsUpTo(S, n) ==
  IF n = 0 THEN { << >> }
  ELSE LET shorter == SeqsUpTo(S, n - 1)
       IN shorter \cup { Append(q, x) : q \in { r \in shorter : Len(r) = n - 1 }, x \in S }

Readings(values) == [timestamp : Timestamps, value : values]

\* --------------------------------------------------------- history merger
NumberFields  == { "timestamp", "netFlow" }
BooleanFields == { "hasForwardFilledRainfall" }

\* the filter v => v && v !== '0' && v !== 'N/A' on the value v of field f:
\* a number is truthy unless 0, a boolean unless false, a string unless ''
isCounted(f, v) ==
  IF f \in NumberFields THEN v # 0
  ELSE IF f \in BooleanFields THEN v
  ELSE v # "" /\ v # "0" /\ v # "N/A"

\* Object.values(entry).filter(...).length
countedFields(entry) ==
  Cardinality({ f \in DOMAIN entry : isCounted(f, entry[f]) })

\* variant: ">=" in place of ">", a tie replaces the stored record
hasMoreDataOrEqual(newEntry, existingEntry) ==
  countedFields(newEntry) >= countedFields(existingEntry)

hasMoreData(newEntry, existingEntry) ==
  countedFields(newEntry) > countedFields(existingEntry)

\* variant: the index of the first element read as "not found", as a test
\* of the index for truthiness would
findIndexTruthy(data, newTimestamp) ==
  IF \E i \in 2 .. Len(data) : data[i].timestamp = newTimestamp
       /\ \A j \in 1 .. (i - 1) : data[j].timestamp # newTimestamp
  THEN CHOOSE i \in 2 .. Len(data) :
         /\ data[i].timestamp = newTimestamp
         /\ \A j \in 1 .. (i - 1) : data[j].timestamp # newTimestamp
  ELSE 0

\* variant: records matched by canonical hour instead of source timestamp
findIndexByHour(data, newTimestamp) ==
  IF \E i \in 1 .. Len(data) : KeyOf(data[i].timestamp) = KeyOf(newTimestamp)
  THEN CHOOSE i \in 1 .. Len(data) :
         /\ KeyOf(data[i].timestamp) = KeyOf(newTimestamp)
         /\ \A j \in 1 .. (i - 1) : KeyOf(data[j].timestamp) # KeyOf(newTimestamp)
  ELSE 0

\* data.findIndex(d => d.timestamp === newTimestamp), 1-based; 0 for -1
findIndex(data, newTimestamp) ==
  IF \E i \in 1 .. Len(data) : data[i].timestamp = newTimestamp
  THEN CHOOSE i \in 1 .. Len(data) :
         /\ data[i].timestamp = newTimestamp
         /\ \A j \in 1 .. (i - 1) : data[j].timestamp # newTimestamp
  ELSE 0

\* variant: no scan, the new record is pushed at the end
insertIndexAtEnd(data, newDataPoint) == Len(data) + 1

\* the scan for the insert position, 1-based: before the first record that
\* is older than the new one, else after the last record
insertIndexOf(data, newDataPoint) ==
  IF \E i \in 1 .. Len(data) : newDataPoint.timestamp > data[i].timestamp
  THEN CHOOSE i \in 1 .. Len(data) :
         /\ newDataPoint.timestamp > data[i].timestamp
         /\ \A j \in 1 .. (i - 1) : ~(newDataPoint.timestamp > data[j].timestamp)
  ELSE Len(data) + 1

\* data.splice(insertIndex, 0, newDataPoint)
splice(data, insertIndex, newDataPoint) ==
  SubSeq(data, 1, insertIndex - 1) \o << newDataPoint >>
    \o SubSeq(data, insertIndex, Len(data))

\* one iteration of the loop over newDam.data
mergePoint(st, newDataPoint) ==
  LET existingIndex == findIndex(st.data, newDataPoint.timestamp)
  IN IF existingIndex = 0
     THEN [st EXCEPT !.data = splice(st.data, insertIndexOf(st.data, newDataPoint),
                                     newDataPoint),
                     !.newPointsAdded = @ + 1]
     ELSE IF hasMoreData(newDataPoint, st.data[existingIndex])
     THEN [st EXCEPT !.data[existingIndex] = newDataPoint,
                     !.pointsUpdated = @ + 1]
     ELSE st

RECURSIVE mergeFrom(_, _)
mergeFrom(st, newData) ==
  IF newData = << >> THEN st
  ELSE mergeFrom(mergePoint(st, Head(newData)), Tail(newData))

\* the loop "for (const newDataPoint of newDam.data)" on an existing history
mergeLoop(existingDamData, newData) ==
  mergeFrom([data |-> existingDamData, newPointsAdded |-> 0, pointsUpdated |-> 0],
            newData)

\* the body of "for (const newDam of dams)": the history map after newDam
\* variant: the fetched dam takes the place of the loaded history
mergeDamOverwrite(existing, newDam) ==
  [existingData |-> [existing EXCEPT ![newDam.name] = << newDam >>],
   dataChanged |-> TRUE]

\* variant: the spec fields are assigned whether or not a record changed
mergeDamAlwaysRefresh(existing, newDam) ==
  LET existingDam == existing[newDam.name]
  IN IF existingDam # << >>
     THEN LET m == mergeLoop(existingDam[1].data, newDam.data)
              changed == m.newPointsAdded > 0 \/ m.pointsUpdated > 0
          IN [existingData |->
                [existing EXCEPT ![newDam.name] =
                   << [id   |-> newDam.id,
                       name |-> existingDam[1].name,
                       MWL  |-> newDam.MWL,
                       data |-> m.data] >>],
              dataChanged |-> changed]
     ELSE [existingData |-> [existing EXCEPT ![newDam.name] = << newDam >>],
           dataChanged |-> TRUE]

mergeDam(existing, newDam) ==
  LET existingDam == existing[newDam.name]
  IN IF existingDam # << >>
     THEN LET m == mergeLoop(existingDam[1].data, newDam.data)
              changed == m.newPointsAdded > 0 \/ m.pointsUpdated > 0
          IN [existingData |->
                [existing EXCEPT ![newDam.name] =
                   << [id   |-> IF changed THEN newDam.id ELSE existingDam[1].id,
                       name |-> existingDam[1].name,
                       MWL  |-> IF changed THEN newDam.MWL ELSE existingDam[1].MWL,
                       data |-> m.data] >>],
              dataChanged |-> changed]
     ELSE [existingData |-> [existing EXCEPT ![newDam.name] = << newDam >>],
           dataChanged |-> TRUE]

\* ----------------------------------------------------- snapshot publisher
\* five-dam revision: { lastUpdate, dams } with the fetched dams as they are
liveDataFiveDam(fetched) ==
  [lastUpdate |-> fetched[1].data[1].date, dams |-> fetched]

RECURSIVE damsById(_)
\* existingDamsById after the forEach over a dams array: later entries win
damsById(damsArray) ==
  IF damsArray = << >> THEN EmptyMap
  ELSE LET n    == Len(damsArray)
           rest == damsById(SubSeq(damsArray, 1, n - 1))
           last == damsArray[n]
       IN [k \in (DOMAIN rest) \cup {last.id} |-> IF k = last.id THEN last ELSE rest[k]]

RECURSIVE sortedById(_, _)
\* Array.from(map.values()).sort((a, b) => parseInt(a.id) - parseInt(b.id))
sortedById(byId, ids) ==
  IF ids = {} THEN << >>
  ELSE LET m == CHOOSE x \in ids : \A y \in ids : parseIntId(x) <= parseIntId(y)
       IN << byId[m] >> \o sortedById(byId, ids \ {m})

\* only the newest fetched record of a dam
latestOnly(dam) ==
  [id |-> dam.id, name |-> dam.name, MWL |-> dam.MWL, data |-> << dam.data[1] >>]

\* variant: the previous live.json is not read
liveDataSixDamFresh(liveFile, fetched) ==
  [lastUpdate |-> fetched[1].data[1].date,
   dams |-> [i \in 1 .. Len(fetched) |-> latestOnly(fetched[i])]]

\* six-dam revision: the previous live.json with the fetched dams laid over
liveDataSixDam(liveFile, fetched) ==
  LET existingLiveData == IF liveFile = << >>
                          THEN [lastUpdate |-> "", dams |-> << >>]
                          ELSE liveFile[1]
      newlyFetchedDams == [i \in 1 .. Len(fetched) |-> latestOnly(fetched[i])]
      byId == damsById(existingLiveData.dams \o newlyFetchedDams)
  IN [lastUpdate |-> IF Len(fetched) > 0 THEN fetched[1].data[1].date
                     ELSE existingLiveData.lastUpdate,
      dams |-> sortedById(byId, DOMAIN byId)]

\* ------------------------------------------------- the run, step by step
VARIABLES
  rev,           \* the revision of the program that is deployed
  files,         \* historic_data: display name -> << >> or << dam history >>
  live,          \* live.json: << >> or << { lastUpdate, dams } >>
  pc,            \* position of the run inside fetchDamDetails
  idx,           \* loop index of the fetch loop and of the merge loop
  dams,          \* the array dams: the dams fetched in this run
  existingData,  \* the object existingData: display name -> << >> or << dam >>
  dataChanged,   \* the flag dataChanged
  runs,          \* number of runs started
  exitCode,      \* << >> while a run is on or none was, << code >> after its exit
  call,          \* the last call of a pure function: its arguments and its result
  written        \* the files this run has called writeFile for, in order

vars == << rev, files, live, pc, idx, dams, existingData, dataChanged, runs,
           exitCode, call, written >>

\* no function has been called on its own
NoCall == [fn |-> "none"]

\* The entry point: fetchDamDetails().then(log).catch(log).  The process ends
\* when the promise settles; no statement sets an exit code, so it is 0.
exitCodeAt(nextPc) ==
  IF nextPc \in { "idle", "failed" } THEN << 0 >> ELSE << >>

NoFiles == [n \in DisplayNames |-> << >>]

\* The series the provider may answer with; an empty series also stands for a
\* failed request, which fetchUSACEData turns into an empty Map.  Every
\* water-level series is explored for the first dam; the other dams answer
\* with one reading at the last tick, or with none.  Inflow is offered at the
\* last tick and cumulative precipitation at the first.
FirstTick == BaseTs
LastTick  == BaseTs + TickLen * (MaxTick - 1)

WaterLevelSeries(damName) ==
  IF damName = damNames[1]
  THEN SeqsUpTo(Readings(WaterLevels), MaxReadings)
  ELSE { << >> } \cup { << [timestamp |-> LastTick, value |-> v] >> : v \in WaterLevels }

InflowSeries(damName) ==
  IF damName = damNames[1]
  THEN { << >> } \cup { << [timestamp |-> LastTick, value |-> v] >> : v \in Inflows }
  ELSE { << >> }

PrecipSeries(damName) ==
  IF damName = damNames[1]
  THEN { << >> } \cup { << [timestamp |-> FirstTick, value |-> v] >> : v \in Precips }
  ELSE { << >> }

\* fetchAllUSACEData: one Map per metric
usaceDataOf(wl, inflow, precip) ==
  [waterLevel    |-> dataMapOf(wl),
   inflow        |-> dataMapOf(inflow),
   outflow       |-> EmptyMap,
   spillway      |-> EmptyMap,
   storage       |-> EmptyMap,
   power         |-> EmptyMap,
   precipitation |-> dataMapOf(precip)]

Init ==
  /\ rev \in Revisions
  /\ files = NoFiles
  /\ live = << >>
  /\ pc = "idle"
  /\ idx = 1
  /\ dams = << >>
  /\ existingData = NoFiles
  /\ dataChanged = FALSE
  /\ runs = 0
  /\ exitCode = << >>
  /\ call = NoCall
  /\ written = << >>

\* the scheduler starts the job; the folder is there or is created
StartRun ==
  /\ pc \in { "idle", "failed" }
  /\ runs < MaxRuns
  /\ runs' = runs + 1
  /\ pc' = "fetch"
  /\ idx' = 1
  /\ dams' = << >>
  /\ existingData' = NoFiles
  /\ dataChanged' = FALSE
  /\ exitCode' = << >>
  /\ written' = << >>
  /\ UNCHANGED << rev, files, live, call >>

\* one iteration of "for (const damName of damNames)"; after the last dam,
\* "if (dams.length === 0) return"
\* variant: a dam that yields nothing ends the fetch loop and the run
FetchDamAbort ==
  /\ pc = "fetch"
  /\ \E wl \in WaterLevelSeries(damNames[idx]),
        inflow \in InflowSeries(damNames[idx]),
        precip \in PrecipSeries(damNames[idx]) :
       LET damData == fetchDamData(rev, damNames[idx], usaceDataOf(wl, inflow, precip))
       IN IF damData = << >>
          THEN dams' = << >> /\ idx' = 1 /\ pc' = "idle"
          ELSE /\ dams' = dams \o damData
               /\ IF idx < Len(damNames)
                  THEN idx' = idx + 1 /\ pc' = "fetch"
                  ELSE idx' = 1 /\ pc' = "load"
  /\ exitCode' = exitCodeAt(pc')
  /\ UNCHANGED << rev, files, live, existingData, dataChanged, runs, call, written >>

FetchDam ==
  /\ pc = "fetch"
  /\ \E wl \in WaterLevelSeries(damNames[idx]),
        inflow \in InflowSeries(damNames[idx]),
        precip \in PrecipSeries(damNames[idx]) :
       dams' = dams \o fetchDamData(rev, damNames[idx], usaceDataOf(wl, inflow, precip))
  /\ IF idx < Len(damNames)
     THEN idx' = idx + 1 /\ pc' = "fetch"
     ELSE idx' = 1 /\ pc' = IF Len(dams') = 0 THEN "idle" ELSE "load"
  /\ exitCode' = exitCodeAt(pc')
  /\ UNCHANGED << rev, files, live, existingData, dataChanged, runs, call, written >>

\* "Load existing data": every .json file of the folder is read and parsed.
\* File names carry '_' for ' '; the names of the model have neither.
LoadExisting ==
  /\ pc = "load"
  /\ existingData' = files
  /\ dataChanged' = FALSE
  /\ idx' = 1
  /\ pc' = "merge"
  /\ exitCode' = exitCodeAt(pc')
  /\ UNCHANGED << rev, files, live, dams, runs, call, written >>

\* variant: the history of a dam is written as soon as the dam is merged
MergeDamWriting ==
  /\ pc = "merge"
  /\ LET r == mergeDam(existingData, dams[idx])
     IN /\ existingData' = r.existingData
        /\ dataChanged' = (dataChanged \/ r.dataChanged)
        /\ files' = [files EXCEPT ![dams[idx].name] = r.existingData[dams[idx].name]]
        /\ written' = Append(written, dams[idx].name)
  /\ IF idx < Len(dams)
     THEN idx' = idx + 1 /\ pc' = "merge"
     ELSE idx' = 1 /\ pc' = IF dataChanged' THEN "save" ELSE "idle"
  /\ exitCode' = exitCodeAt(pc')
  /\ UNCHANGED << rev, live, dams, runs, call >>

\* one iteration of "for (const newDam of dams)"; after the last one,
\* "if (dataChanged)"
MergeDam ==
  /\ pc = "merge"
  /\ LET r == mergeDam(existingData, dams[idx])
     IN /\ existingData' = r.existingData
        /\ dataChanged' = (dataChanged \/ r.dataChanged)
  /\ IF idx < Len(dams)
     THEN idx' = idx + 1 /\ pc' = "merge"
     ELSE idx' = 1 /\ pc' = IF dataChanged' THEN "save" ELSE "idle"
  /\ exitCode' = exitCodeAt(pc')
  /\ UNCHANGED << rev, files, live, dams, runs, call, written >>

\* the keys of existingData, as the save loop meets them; the order of the
\* model is the order of damNames
savedNames ==
  SelectSeq([i \in 1 .. Len(damNames) |-> Names(damNames[i])],
            LAMBDA n : existingData[n] # << >>)

\* variant: only the histories of the dams fetched in this run are written
SaveFilesFetchedOnly ==
  /\ pc = "save"
  /\ files' = [n \in DisplayNames |->
                 IF \E i \in 1 .. Len(dams) : dams[i].name = n
                 THEN existingData[n] ELSE files[n]]
  /\ written' = written \o SelectSeq(savedNames,
                                      LAMBDA n : \E i \in 1 .. Len(dams) : dams[i].name = n)
  /\ pc' = "live"
  /\ exitCode' = exitCodeAt(pc')
  /\ UNCHANGED << rev, live, idx, dams, existingData, dataChanged, runs, call >>

\* "Save individual dam files": every entry of existingData is written
SaveFiles ==
  /\ pc = "save"
  /\ files' = [n \in DisplayNames |->
                 IF existingData[n] # << >> THEN existingData[n] ELSE files[n]]
  /\ written' = written \o savedNames
  /\ pc' = "live"
  /\ exitCode' = exitCodeAt(pc')
  /\ UNCHANGED << rev, live, idx, dams, existingData, dataChanged, runs, call >>

\* five-dam revision: live.json is written from the fetched dams
WriteLiveFiveDam ==
  /\ pc = "live"
  /\ rev = "five-dam"
  /\ live' = << liveDataFiveDam(dams) >>
  /\ written' = Append(written, "live.json")
  /\ pc' = "idle"
  /\ exitCode' = exitCodeAt(pc')
  /\ UNCHANGED << rev, files, idx, dams, existingData, dataChanged, runs, call >>

\* six-dam revision: live.json is read, updated and written
WriteLiveSixDam ==
  /\ pc = "live"
  /\ rev = "six-dam"
  /\ live' = << liveDataSixDam(live, dams) >>
  /\ written' = Append(written, "live.json")
  /\ pc' = "idle"
  /\ exitCode' = exitCodeAt(pc')
  /\ UNCHANGED << rev, files, idx, dams, existingData, dataChanged, runs, call >>

Next ==
  \/ StartRun
  \/ FetchDam
  \/ LoadExisting
  \/ MergeDam
  \/ SaveFiles
  \/ WriteLiveFiveDam
  \/ WriteLiveSixDam

Spec == Init /\ [][Next]_vars

\* ------------------------------------------------- the file system fails
existingFiles == { n \in DisplayNames : files[n] # << >> }

\* "Load existing data" when readFile or JSON.parse throws at one file: the
\* one try block holds the whole loop, so the catch ends it and existingData
\* keeps the files read before the failing one.  The order in which readdir
\* lists the files is not specified: any set of the other files may have
\* been read.
LoadExistingFails ==
  /\ pc = "load"
  /\ \E failing \in existingFiles :
       \E loaded \in SUBSET (existingFiles \ { failing }) :
         existingData' = [n \in DisplayNames |->
                            IF n \in loaded THEN files[n] ELSE << >>]
  /\ dataChanged' = FALSE
  /\ idx' = 1
  /\ pc' = "merge"
  /\ exitCode' = exitCodeAt(pc')
  /\ UNCHANGED << rev, files, live, dams, runs, call, written >>

\* The scheduler starts the job and the folder can be neither accessed nor
\* created: fs.mkdir throws, the outer catch logs the error and
\* fetchDamDetails returns.
StartRunNoFolder ==
  /\ pc \in { "idle", "failed" }
  /\ runs < MaxRuns
  /\ runs' = runs + 1
  /\ pc' = "failed"
  /\ idx' = 1
  /\ dams' = << >>
  /\ existingData' = NoFiles
  /\ dataChanged' = FALSE
  /\ exitCode' = exitCodeAt(pc')
  /\ written' = << >>
  /\ UNCHANGED << rev, files, live, call >>

\* "Save individual dam files" when writeFile throws for some of the files:
\* the catch inside the loop logs the error and the loop goes on; the files
\* that were refused keep their content
SaveFilesFails ==
  /\ pc = "save"
  /\ \E refused \in (SUBSET { n \in DisplayNames : existingData[n] # << >> }) \ { {} } :
       files' = [n \in DisplayNames |->
                   IF existingData[n] # << >> /\ n \notin refused
                   THEN existingData[n] ELSE files[n]]
  /\ written' = written \o savedNames
  /\ pc' = "live"
  /\ exitCode' = exitCodeAt(pc')
  /\ UNCHANGED << rev, live, idx, dams, existingData, dataChanged, runs, call >>

\* the write of live.json throws: the catch logs the error, the file keeps
\* its content
WriteLiveFails ==
  /\ pc = "live"
  /\ written' = Append(written, "live.json")
  /\ pc' = "idle"
  /\ exitCode' = exitCodeAt(pc')
  /\ UNCHANGED << rev, files, live, idx, dams, existingData, dataChanged, runs, call >>

NextFs ==
  \/ Next
  \/ LoadExistingFails
  \/ StartRunNoFolder
  \/ SaveFilesFails
  \/ WriteLiveFails

SpecFs == Init /\ [][NextFs]_vars

\* ------------------------------------- the pure functions on their own
\* A behaviour of SpecUnit is one call of one function on arguments drawn
\* from the sets below; the run of fetchDamDetails is not started.
\* the spec of the dam as configured, and the same spec with the maximum
\* water level SurchargeDepth above the top of the flood pool
specsOffered(revision, damName) ==
  { damSpecs(revision, damName),
    [damSpecs(revision, damName) EXCEPT !.MWL = @ + 1000] }

\* water levels offered to the storage functions: none (0), below the dead
\* storage level, the tenths of the pool depth, and steps of 2.5 ft above
\* the flood pool
levelsOffered(specs) ==
  { 0, specs.deadStorageLevel - 100 }
    \cup { specs.deadStorageLevel
             + (k * (specs.floodPool - specs.deadStorageLevel)) \div 10 : k \in 0 .. 10 }
    \cup { specs.floodPool + 250 * j : j \in 1 .. MaxSurchargeSteps }

CallStoragePercentage ==
  /\ call = NoCall
  /\ \E damName \in configuredDams(rev) :
       \E specs \in specsOffered(rev, damName) :
         \E waterLevel \in levelsOffered(specs) :
           call' = [fn         |-> "calculateStoragePercentage",
                    damName    |-> damName,
                    specs      |-> specs,
                    waterLevel |-> waterLevel,
                    ret        |-> calculateStoragePercentage(rev, waterLevel,
                                                              specs, damName)]
  /\ UNCHANGED << rev, files, live, pc, idx, dams, existingData, dataChanged,
                  runs, exitCode, written >>

\* the instants of the hours offered to fetchDamData and to the gap fillers
hourInstants == { BaseTs + HourLen * k : k \in 0 .. (MaxHours - 1) }

lastHourInstant == BaseTs + HourLen * (MaxHours - 1)

\* every series with at most one reading per instant of `instants`, oldest
\* first, the values drawn from `values`
seriesOver(instants, values) ==
  { [i \in 1 .. Cardinality(D) |->
       [timestamp |-> SortAsc(D)[i], value |-> f[SortAsc(D)[i]]]] :
    D \in SUBSET instants, f \in [instants -> values] }

\* The metric maps offered to fetchDamData.  The water level is absent,
\* negative, zero or 560.00 ft at every hour; cumulative precipitation is
\* absent, 0.05 in or 0.12 in at every hour; the other metrics are absent or
\* present at the last hour: outflow 0 or 10.4 cfs, spillway 0.6 cfs,
\* inflow 12.5 cfs (read half an hour after the other metrics), energy
\* 3.0 MWh, storage 1,900,000.4 acre-feet.
usaceDataOffered ==
  { [waterLevel    |-> dataMapOf(wl),
     inflow        |-> dataMapOf(inflow),
     outflow       |-> dataMapOf(outflow),
     spillway      |-> dataMapOf(spillway),
     storage       |-> dataMapOf(storage),
     power         |-> dataMapOf(power),
     precipitation |-> dataMapOf(precip)] :
    wl       \in seriesOver(hourInstants, { -100, 0, 56000 }),
    inflow   \in seriesOver({ lastHourInstant + TickLen }, { 125 }),
    outflow  \in seriesOver({ lastHourInstant }, { 0, 104 }),
    spillway \in seriesOver({ lastHourInstant }, { 6 }),
    storage  \in seriesOver({ lastHourInstant }, { 19000004 }),
    power    \in seriesOver({ lastHourInstant }, { 30 }),
    precip   \in seriesOver(hourInstants, { 5, 12 }) }

\* the metric maps with the value of the reading of metric m at key k null
nullAt(usaceData, m, k) ==
  [usaceData EXCEPT ![m] = [@ EXCEPT ![k] = nullEntry(@)]]

\* Metric maps in which a single reading carries a null value: the water
\* level is absent or 560.00 ft and cumulative precipitation absent or
\* 0.12 in at every hour, the other metrics have a reading at the last hour,
\* and one reading of one metric is null.
usaceDataWithNull ==
  UNION { { nullAt(usaceData, m, k) : k \in DOMAIN usaceData[m] } :
          usaceData \in { u \in usaceDataOffered :
                            /\ \A k \in DOMAIN u.waterLevel : u.waterLevel[k].value > 0
                            /\ \A k \in DOMAIN u.precipitation :
                                 u.precipitation[k].value = 12
                            /\ \A n \in { "inflow", "outflow", "spillway",
                                          "storage", "power" } : u[n] # EmptyMap
                            /\ \A k \in DOMAIN u.outflow : u.outflow[k].value > 0 },
          m \in { "waterLevel", "inflow", "outflow", "spillway", "storage",
                  "power", "precipitation" } }

CallFetchDamData ==
  /\ call = NoCall
  /\ \E usaceData \in usaceDataOffered \cup usaceDataWithNull :
       call' = [fn        |-> "fetchDamData",
                damName   |-> damNames[1],
                usaceData |-> usaceData,
                ret       |-> fetchDamData(rev, damNames[1], usaceData)]
  /\ UNCHANGED << rev, files, live, pc, idx, dams, existingData, dataChanged,
                  runs, exitCode, written >>

\* the instants of the hours offered to the gap fillers
fillInstants == { BaseTs + HourLen * k : k \in 0 .. (MaxFillHours - 1) }

\* The arguments of a gap filler as fetchDamData passes them: a cumulative
\* precipitation map (0.05 in or 0.12 in per reading) and a set of hour keys
\* that holds the keys of the map.
fillArgsOffered ==
  { [precipitationMap |-> dataMapOf(precip),
     allTimestamps    |-> (DOMAIN dataMapOf(precip)) \cup others] :
    precip \in seriesOver(fillInstants, { 5, 12 }),
    others \in SUBSET { KeyOf(t) : t \in fillInstants } }

CallForwardFillRainfall ==
  /\ call = NoCall
  /\ rev = "five-dam"
  /\ \E args \in fillArgsOffered :
       call' = [fn               |-> "forwardFillRainfall",
                precipitationMap |-> args.precipitationMap,
                allTimestamps    |-> args.allTimestamps,
                ret              |-> forwardFillRainfall(args.precipitationMap,
                                                         args.allTimestamps)]
  /\ UNCHANGED << rev, files, live, pc, idx, dams, existingData, dataChanged,
                  runs, exitCode, written >>

CallProcessIncrementalRainfall ==
  /\ call = NoCall
  /\ rev = "six-dam"
  /\ \E args \in fillArgsOffered :
       call' = [fn               |-> "processIncrementalRainfall",
                precipitationMap |-> args.precipitationMap,
                allTimestamps    |-> args.allTimestamps,
                ret              |-> processIncrementalRainfall(args.precipitationMap,
                                                                args.allTimestamps)]
  /\ UNCHANGED << rev, files, live, pc, idx, dams, existingData, dataChanged,
                  runs, exitCode, written >>

\* The histories offered to the merge: the records of an earlier fetch of
\* the first dam, under the spec fields this program writes or under those
\* of the single-dam script that wrote the file before (MWL '590.00').
historiesOffered ==
  { [fetched[1] EXCEPT !.MWL = mwl] :
      fetched \in { fetchDamData(rev, damNames[1], usaceDataOf(wl, << >>, << >>)) :
                      wl \in WaterLevelSeries(damNames[1]) } \ { << >> },
      mwl \in { toFixed2(damSpecs(rev, damNames[1]).MWL), "590.00" } }

\* the dams a run may have fetched for the first dam
newDamsOffered ==
  { fetched[1] :
      fetched \in { fetchDamData(rev, damNames[1], usaceDataOf(wl, inflow, << >>)) :
                      wl \in WaterLevelSeries(damNames[1]),
                      inflow \in InflowSeries(damNames[1]) } \ { << >> } }

\* one iteration of "for (const newDam of dams)" on a loaded history
CallMergeDam ==
  /\ call = NoCall
  /\ \E existingDam \in historiesOffered, newDam \in newDamsOffered :
       LET existing == [NoFiles EXCEPT ![newDam.name] = << existingDam >>]
       IN call' = [fn          |-> "mergeDam",
                   existingDam |-> existingDam,
                   newDam      |-> newDam,
                   ret         |-> mergeDam(existing, newDam)]
  /\ UNCHANGED << rev, files, live, pc, idx, dams, existingData, dataChanged,
                  runs, exitCode, written >>

NextUnit ==
  \/ CallStoragePercentage
  \/ CallFetchDamData
  \/ CallMergeDam
  \/ CallForwardFillRainfall
  \/ CallProcessIncrementalRainfall

SpecUnit == Init /\ [][NextUnit]_vars

\* ------------------------------------------------ the adapter, step by step
\* fetchUSACEData: one request to the provider, the conversion of its answer
\* into a Map keyed by the hour, and (six-dam revision) the retries of the
\* flow metrics and the weather-service fallback of the precipitation.

\* The time zones the process may run in (the TZ of the host; the workflow
\* runner uses UTC, a developer's machine in Arkansas America/Chicago).
Zones == { "UTC", "America/Chicago", "Asia/Kolkata" }

\* Minutes that the local clock of a zone is ahead of UTC at an instant.
\* America/Chicago leaves daylight time on 2025-11-02 at 07:00 UTC
\* (minute 29367780 of the epoch); the instants offered lie between the
\* change of March 2025 and that of March 2026.
zoneOffset(zone, instant) ==
  CASE zone = "UTC"             -> 0
    [] zone = "Asia/Kolkata"    -> 330
    [] zone = "America/Chicago" -> IF instant < 29367780 THEN 0 - 300 ELSE 0 - 360

\* year, month (1..12) and day of the month of a day number since 1970-01-01
\* in the proleptic Gregorian calendar, as Date computes them
civilFromDays(dayNumber) ==
  LET z     == dayNumber + 719468
      era   == z \div 146097
      doe   == z % 146097
      yoe   == (doe - (doe \div 1460) + (doe \div 36524) - (doe \div 146096)) \div 365
      doy   == doe - (365 * yoe + (yoe \div 4) - (yoe \div 100))
      mp    == (5 * doy + 2) \div 153
      month == IF mp < 10 THEN mp + 3 ELSE mp - 9
  IN [year  |-> yoe + era * 400 + (IF month <= 2 THEN 1 ELSE 0),
      month |-> month,
      day   |-> doy - ((153 * mp + 2) \div 5) + 1]

\* getFullYear(), getMonth() + 1, getDate() and getHours() of a Date: the
\* fields of the local clock of the process zone at the instant of the Date
localFields(zone, instant) ==
  LET wall == instant + zoneOffset(zone, instant)
      date == civilFromDays(wall \div 1440)
  IN [year  |-> date.year,
      month |-> date.month,
      day   |-> date.day,
      hours |-> (wall % 1440) \div 60]

RECURSIVE digitsOf(_)
\* Number.prototype.toString() of a natural number, as UTF-16 code units
digitsOf(n) ==
  IF n < 10 THEN << 48 + n >> ELSE digitsOf(n \div 10) \o << 48 + (n % 10) >>

\* String.prototype.padStart(2, '0')
padStart2(s) == IF Len(s) < 2 THEN << 48 >> \o s ELSE s

\* the string "NaN", which every getter of an Invalid Date formats to
NaNString == << 78, 97, 78 >>

\* a reading carries a timestamp that Date can parse, or one it cannot (a
\* missing, null or garbled timestamp): then the record has no field timestamp
hasTimestamp(reading) == "timestamp" \in DOMAIN reading

\* The key of fetchUSACEData for a reading, as a string of UTF-16 code units:
\* `${getFullYear()}-${month.padStart(2,'0')}-${date.padStart(2,'0')}-${hours.padStart(2,'0')}`
\* of the Date (timestamp - 5 h), read in the zone of the process.
keyString(zone, reading) ==
  IF hasTimestamp(reading)
  THEN LET f == localFields(zone, reading.timestamp - OffsetMin)
       IN digitsOf(f.year) \o << 45 >> \o padStart2(digitsOf(f.month))
            \o << 45 >> \o padStart2(digitsOf(f.day))
            \o << 45 >> \o padStart2(digitsOf(f.hours))
  ELSE NaNString \o << 45 >> \o NaNString \o << 45 >> \o NaNString
         \o << 45 >> \o NaNString

RECURSIVE StringLess(_, _)
\* the order of Array.prototype.sort() without comparator: by code units
StringLess(a, b) ==
  IF b = << >> THEN FALSE
  ELSE IF a = << >> THEN TRUE
  ELSE IF Head(a) # Head(b) THEN Head(a) < Head(b)
  ELSE StringLess(Tail(a), Tail(b))

\* the fields of the entry dataMap.set stores: a null value or a timestamp
\* that does not parse leaves its field out
entryFields(reading) ==
  (IF hasValue(reading) THEN { "value" } ELSE {})
    \cup (IF hasTimestamp(reading) THEN { "originalTimestamp" } ELSE {})

\* dataMap.set(key, { value, originalTimestamp: timestamp })
entryOf(reading) ==
  [f \in entryFields(reading) |->
     IF f = "value" THEN reading.value ELSE reading.timestamp]

RECURSIVE dataMapIn(_, _)
\* the forEach of fetchUSACEData in a process of the given zone: every
\* reading is set under its key, a later reading of a key overwrites
dataMapIn(zone, values) ==
  IF values = << >> THEN EmptyMap
  ELSE LET n    == Len(values)
           rest == dataMapIn(zone, SubSeq(values, 1, n - 1))
           key  == keyString(zone, values[n])
       IN [k \in (DOMAIN rest) \cup {key} |->
             IF k = key THEN entryOf(values[n]) ELSE rest[k]]

\* Array.from(dataMap.keys()).sort().reverse()[0]
latestKey(dataMap) ==
  CHOOSE k \in DOMAIN dataMap :
    \A other \in DOMAIN dataMap : other = k \/ StringLess(other, k)

\* latestValue === 0 || latestValue === null || latestValue === undefined
suspiciousLatest(dataMap) ==
  LET latest == dataMap[latestKey(dataMap)]
  IN ~hasValue(latest) \/ latest.value = 0

isCriticalFlowData(parameter) == parameter \in { "Inflow", "Total Outflow" }

\* a variant of the bound that allows one more retry
mayRetryOnceMore(parameter, retryCount) ==
  isCriticalFlowData(parameter) /\ retryCount < 3

\* the bound of the retries: retryCount < 2
mayRetry(parameter, retryCount) ==
  isCriticalFlowData(parameter) /\ retryCount < 2

\* the metrics fetchAllUSACEData asks fetchUSACEData for (the last two for
\* the dams that have such endpoints)
Parameters ==
  { "Water Level", "Inflow", "Total Outflow", "Spillway Flow", "Storage",
    "Power Generation", "Precipitation", "Tailwater Level",
    "Flood Pool Percent" }

\* Instants of provider readings offered to the adapter, around BaseTs
\* (2025-06-10T15:00Z): three of one clock hour, the hour before (09 then
\* 10), the two sides of a midnight, of a month's end, of the end of
\* daylight time and of a year's end.
AdapterInstants ==
  { BaseTs, BaseTs + 20, BaseTs + 40, BaseTs - 60, BaseTs - 601, BaseTs - 600,
    BaseTs + 29610, BaseTs + 29670, BaseTs + 208590, BaseTs + 208650,
    BaseTs + 294570, BaseTs + 294630 }

\* a reading: [timestamp, value], each of which may be unusable
readingOf(timestamp, value) ==
  [f \in (IF timestamp = << >> THEN {} ELSE { "timestamp" })
          \cup (IF value = << >> THEN {} ELSE { "value" }) |->
     IF f = "timestamp" THEN timestamp[1] ELSE value[1]]

\* The values arrays the provider may answer with: none, one reading with a
\* number, a zero or a null, and pairs of readings with numbers whose
\* timestamps are any two offered instants or do not parse.
ValuesOffered ==
  { << >> }
    \cup { << readingOf(<< BaseTs >>, v) >> : v \in { << 120 >>, << 0 >>, << >> } }
    \cup { << readingOf(t1, << 110 >>), readingOf(t2, << 120 >>) >> :
             t1 \in { << t >> : t \in AdapterInstants } \cup { << >> },
             t2 \in { << t >> : t \in AdapterInstants } \cup { << >> } }

\* How makeRequest and the parsing of its answer can end: the request is
\* rejected (error or timeout), the status is not 200, the body is not JSON,
\* the body has no array `values`, or it has one.
RequestOutcomes ==
  { [kind |-> k, values |-> << >>] :
      k \in { "error", "timeout", "status", "unparsable", "noValues" } }
    \cup { [kind |-> "values", values |-> v] : v \in ValuesOffered }

\* How fetchNWSPrecipitation can end: the point or the stations request
\* fails or names no station (caught, empty Map), or the first
\* Math.min(3, n) stations answer, each with a failure or no usable
\* observation (<< >>) or with observations.
StationAnswers ==
  { << >>, << readingOf(<< BaseTs >>, << 5 >>) >>,
    << readingOf(<< BaseTs >>, << >>) >> }

NwsOutcomes ==
  { [kind |-> k, stations |-> << >>] :
      k \in { "pointFailed", "stationsFailed", "noStations" } }
    \cup { [kind |-> "stations", stations |-> << a >>] : a \in StationAnswers }
    \cup { [kind |-> "stations", stations |-> << a, b >>] :
             a \in StationAnswers, b \in StationAnswers }

\* precipitationLastHour.value * 39.3701: millimetres to hundredths of an inch
metersToInches(mm) == (mm * 393701) \div 100000

\* the precipMap of one station: observations with a null value are skipped
precipMapIn(zone, observations) ==
  dataMapIn(zone,
    [i \in DOMAIN SelectSeq(observations, hasValue) |->
       LET obs == SelectSeq(observations, hasValue)[i]
       IN [obs EXCEPT !.value = metersToInches(@)]])

RECURSIVE firstStationMap(_, _)
\* the loop over the stations: the first non-empty precipMap is returned
firstStationMap(zone, stations) ==
  IF stations = << >> THEN EmptyMap
  ELSE IF precipMapIn(zone, Head(stations)) # EmptyMap
       THEN precipMapIn(zone, Head(stations))
       ELSE firstStationMap(zone, Tail(stations))

fetchNWSPrecipitation(zone, outcome) ==
  IF outcome.kind = "stations"
  THEN firstStationMap(zone, SubSeq(outcome.stations, 1, Min(3, Len(outcome.stations))))
  ELSE EmptyMap

\* fetchUSACEData has returned the Map dataMap
returned(c, dataMap) == [c EXCEPT !.at = "returned", !.ret = dataMap]

\* return await fetchUSACEData(endpoint, parameter, damName, retryCount + 1)
retry(c) == [c EXCEPT !.at = "request", !.retryCount = @ + 1]

\* return await fetchNWSPrecipitation(damName, timeRange)
fallback(c) == [c EXCEPT !.at = "nws", !.fallbacks = @ + 1]

\* a variant of the catch block that passes the error on once the retries
\* are used up
catchBlockRethrows(revision, c) ==
  IF revision = "five-dam" THEN [c EXCEPT !.at = "rejected"]
  ELSE IF c.parameter = "Precipitation" THEN fallback(c)
  ELSE IF mayRetry(c.parameter, c.retryCount) THEN retry(c)
  ELSE [c EXCEPT !.at = "rejected"]

\* the catch block of fetchUSACEData
catchBlock(revision, c) ==
  IF revision = "five-dam" THEN returned(c, EmptyMap)
  ELSE IF c.parameter = "Precipitation" THEN fallback(c)
  ELSE IF mayRetry(c.parameter, c.retryCount) THEN retry(c)
  ELSE returned(c, EmptyMap)

\* the Map the forEach builds from each answer offered, in each zone
AnswerMaps ==
  [zone \in Zones |-> [values \in ValuesOffered |-> dataMapIn(zone, values)]]

\* the try block of fetchUSACEData after makeRequest has settled
afterRequest(revision, c0, outcome) ==
  LET c == [c0 EXCEPT !.requests = @ + 1, !.settled = outcome.kind,
                      !.values = outcome.values]
      dataMap == AnswerMaps[c.zone][outcome.values]
  IN CASE outcome.kind \in { "error", "timeout", "unparsable" } ->
            catchBlock(revision, c)
       [] outcome.kind = "status" ->
            IF revision = "six-dam" /\ c.parameter = "Precipitation"
            THEN fallback(c) ELSE catchBlock(revision, c)
       [] outcome.kind = "noValues" ->
            IF revision = "six-dam" /\ c.parameter = "Precipitation"
            THEN fallback(c) ELSE returned(c, EmptyMap)
       [] outcome.kind = "values" ->
            IF /\ revision = "six-dam"
               /\ mayRetry(c.parameter, c.retryCount)
               /\ dataMap # EmptyMap
               /\ suspiciousLatest(dataMap)
            THEN retry(c) ELSE returned(c, dataMap)

\* fetchUSACEData(endpoint, parameter, damName) is called: retryCount = 0
CallFetchUSACEData ==
  /\ call = NoCall
  /\ \E parameter \in Parameters, zone \in Zones :
       call' = [fn         |-> "fetchUSACEData",
                parameter  |-> parameter,
                zone       |-> zone,
                retryCount |-> 0,
                requests   |-> 0,
                fallbacks  |-> 0,
                settled    |-> "none",
                nwsSettled |-> "none",
                at         |-> "request",
                values     |-> << >>,
                ret        |-> EmptyMap]
  /\ UNCHANGED << rev, files, live, pc, idx, dams, existingData, dataChanged,
                  runs, exitCode, written >>

\* await makeRequest(url) settles and the function runs to its next await
\* or to its return
RequestSettles ==
  /\ call.fn = "fetchUSACEData"
  /\ call.at = "request"
  /\ \E outcome \in RequestOutcomes : call' = afterRequest(rev, call, outcome)
  /\ UNCHANGED << rev, files, live, pc, idx, dams, existingData, dataChanged,
                  runs, exitCode, written >>

\* await fetchNWSPrecipitation(damName, timeRange) settles
NwsSettles ==
  /\ call.fn = "fetchUSACEData"
  /\ call.at = "nws"
  /\ \E outcome \in NwsOutcomes :
       call' = returned([call EXCEPT !.nwsSettled = outcome.kind],
                        fetchNWSPrecipitation(call.zone, outcome))
  /\ UNCHANGED << rev, files, live, pc, idx, dams, existingData, dataChanged,
                  runs, exitCode, written >>

NextAdapter ==
  \/ CallFetchUSACEData
  \/ RequestSettles
  \/ NwsSettles

SpecAdapter == Init /\ [][NextAdapter]_vars

\* Every request of makeRequest settles (answer, error, or the timeout of
\* 15 s), so an awaiting call goes on.
SpecAdapterFair ==
  Init /\ [][NextAdapter]_vars /\ WF_vars(RequestSettles) /\ WF_vars(NwsSettles)

\* ------------------------------------------------ vocabulary of the claims
timestampsOf(data) == { data[i].timestamp : i \in 1 .. Len(data) }

recordsOf(data) == { data[i] : i \in 1 .. Len(data) }

\* the record of `data` carrying source timestamp t (the first, as findIndex)
recordAt(data, t) == data[findIndex(data, t)]

fetchedNames == { dams[i].name : i \in 1 .. Len(dams) }

fetchedIds == { dams[i].id : i \in 1 .. Len(dams) }

newestFirst(data) ==
  \A i \in 1 .. (Len(data) - 1) : data[i].timestamp >= data[i + 1].timestamp

noSharedTimestamp(data) ==
  \A i, j \in 1 .. Len(data) : i # j => data[i].timestamp # data[j].timestamp

\* a run has gone through its merge loop and has ended
RunEnded == pc = "idle" /\ runs > 0 /\ dams # << >>

\* ------------------------------------------------------------------- C1
\* C1: merging the records R of a fetched dam into its history (or creating
\* the history from R when there is none) and then merging the same R again
\* gives the history of the first merge: the second merge inserts nothing,
\* replaces nothing and leaves dataChanged false.
C1_MergeIdempotent ==
  pc = "merge" =>
    LET newDam == dams[idx]
        once   == mergeDam(existingData, newDam)
        again  == mergeLoop(once.existingData[newDam.name][1].data, newDam.data)
        twice  == mergeDam(once.existingData, newDam)
    IN /\ twice.existingData = once.existingData
       /\ twice.dataChanged = FALSE
       /\ again.newPointsAdded = 0
       /\ again.pointsUpdated = 0

\* a second run has fetched exactly the records its history was created
\* from, two of them, and has changed nothing
C1_Witness ==
  /\ RunEnded
  /\ runs >= 2
  /\ ~dataChanged
  /\ \E i \in 1 .. Len(dams) :
       /\ Len(dams[i].data) = 2
       /\ files[dams[i].name] # << >>
       /\ files[dams[i].name][1].data = dams[i].data

\* ------------------------------------------------------------------- C2
\* the claim's notion of an informative field: non-null, non-empty and not
\* an 'unavailable' placeholder.  Numbers and booleans are values, neither
\* null nor empty; the placeholders are the strings '0' and 'N/A'.
isInformative(f, v) ==
  IF f \in NumberFields \cup BooleanFields THEN TRUE
  ELSE v # "" /\ v # "0" /\ v # "N/A"

informativeFields(entry) ==
  Cardinality({ f \in DOMAIN entry : isInformative(f, entry[f]) })

\* C2: a fetched record whose source timestamp is already in the history
\* replaces the stored record, in place, exactly when it has strictly more
\* informative fields; otherwise the stored record stays.
C2_CompletenessWins ==
  [][ (pc = "merge" /\ existingData[dams[idx].name] # << >>) =>
        LET name == dams[idx].name
            old  == existingData[name][1].data
            new  == existingData'[name][1].data
        IN \A i \in 1 .. Len(dams[idx].data) :
             LET p == dams[idx].data[i]
             IN p.timestamp \in timestampsOf(old) =>
                  recordAt(new, p.timestamp) =
                    IF informativeFields(p) > informativeFields(recordAt(old, p.timestamp))
                    THEN p
                    ELSE recordAt(old, p.timestamp) ]_vars

\* ------------------------------------------------------------------- C3
\* C3: from no history file on, every dam history, in memory and on disk,
\* is ordered newest-first by source timestamp.
C3_NewestFirst ==
  \A n \in DisplayNames :
    /\ files[n] # << >> => newestFirst(files[n][1].data)
    /\ existingData[n] # << >> => newestFirst(existingData[n][1].data)

\* the last run fetched one record and it went between two stored records
C3_Witness ==
  /\ RunEnded
  /\ dataChanged
  /\ \E i \in 1 .. Len(dams) :
       /\ Len(dams[i].data) = 1
       /\ Len(files[dams[i].name][1].data) = 3
       /\ files[dams[i].name][1].data[2] = dams[i].data[1]

\* ------------------------------------------------------------------- C4
\* C4: from no history file on, no two records of one dam history share a
\* source timestamp.
C4_UniqueTimestamps ==
  \A n \in DisplayNames :
    /\ files[n] # << >> => noSharedTimestamp(files[n][1].data)
    /\ existingData[n] # << >> => noSharedTimestamp(existingData[n][1].data)

\* a run has delivered a different record for a stored source timestamp and
\* the history holds that timestamp once
C4_Witness ==
  /\ RunEnded
  /\ runs >= 2
  /\ \E i \in 1 .. Len(dams) : \E j \in 1 .. Len(dams[i].data) :
       LET p == dams[i].data[j]
           h == files[dams[i].name][1].data
       IN /\ p.timestamp \in timestampsOf(h)
          /\ recordAt(h, p.timestamp) # p

\* ------------------------------------------------------------------- C5
\* C5: the merge loop removes no record: every source timestamp of a loaded
\* history is in the history after the dam is merged and the history is no
\* shorter; and across every step of every run a persisted history keeps
\* its source timestamps and its length never decreases.
C5_AppendOnly ==
  [][ /\ \A n \in DisplayNames :
           existingData[n] # << >> /\ pc = "merge" =>
             /\ existingData'[n] # << >>
             /\ timestampsOf(existingData[n][1].data)
                   \subseteq timestampsOf(existingData'[n][1].data)
             /\ Len(existingData'[n][1].data) >= Len(existingData[n][1].data)
      /\ \A n \in DisplayNames :
           files[n] # << >> =>
             /\ files'[n] # << >>
             /\ timestampsOf(files[n][1].data) \subseteq timestampsOf(files'[n][1].data)
             /\ Len(files'[n][1].data) >= Len(files[n][1].data) ]_vars

\* a run has merged a new record into a history that keeps an older record
\* the run did not fetch
C5_Witness ==
  /\ RunEnded
  /\ dataChanged
  /\ runs >= 2
  /\ \E i \in 1 .. Len(dams) :
       LET h == files[dams[i].name][1].data
       IN /\ recordsOf(dams[i].data) \subseteq recordsOf(h)
          /\ timestampsOf(h) \ timestampsOf(dams[i].data) # {}

\* ------------------------------------------------------------------- C6
\* C6: a fetched record whose source timestamp is not in the loaded history
\* is inserted as a new entry also when the history holds a record of the
\* same canonical hour: both records are in the history afterwards.
C6_SubHourlyKept ==
  [][ (pc = "merge" /\ existingData[dams[idx].name] # << >>) =>
        LET name == dams[idx].name
            old  == existingData[name][1].data
            new  == existingData'[name][1].data
        IN \A i \in 1 .. Len(dams[idx].data) : \A j \in 1 .. Len(old) :
             LET p == dams[idx].data[i]
                 q == old[j]
             IN (KeyOf(p.timestamp) = KeyOf(q.timestamp)
                   /\ p.timestamp \notin timestampsOf(old)) =>
                  /\ p \in recordsOf(new)
                  /\ q.timestamp \in timestampsOf(new)
                  /\ Len(new) > Len(old) ]_vars

\* a persisted history holds two records of one canonical hour
C6_Witness ==
  \E n \in DisplayNames :
    /\ files[n] # << >>
    /\ \E i, j \in 1 .. Len(files[n][1].data) :
         LET h == files[n][1].data
         IN /\ h[i].timestamp # h[j].timestamp
            /\ KeyOf(h[i].timestamp) = KeyOf(h[j].timestamp)

\* ------------------------------------------------------------------- C7
\* C7: a dam for which fetchDamData returns null does not end the fetch
\* loop; no step of the run changes the history file of a dam that was not
\* fetched; and when the run has ended every record fetched for the other
\* dams is in their history files.
C7_FailureIsolation ==
  [][ /\ (pc = "fetch" /\ idx < Len(damNames)) => (pc' = "fetch" /\ idx' = idx + 1)
      /\ \A n \in DisplayNames :
           (pc # "fetch" /\ n \notin fetchedNames) => files'[n] = files[n]
      /\ RunEnded' =>
           \A i \in 1 .. Len(dams') :
             /\ files'[dams'[i].name] # << >>
             /\ timestampsOf(dams'[i].data)
                   \subseteq timestampsOf(files'[dams'[i].name][1].data) ]_vars

\* the first dam failed in a run that wrote a new history for the second
\* dam, and the first dam's history of an earlier run is still there
C7_Witness ==
  /\ RunEnded
  /\ dataChanged
  /\ Len(dams) = 1
  /\ dams[1].name = Names(damNames[2])
  /\ files[Names(damNames[1])] # << >>
  /\ files[Names(damNames[2])] = << dams[1] >>

\* ------------------------------------------------------------------- C8
liveEntries(liveFile) ==
  IF liveFile = << >> THEN {} ELSE recordsOf(liveFile[1].dams)

\* C8 (six-dam revision): when live.json is rewritten, every entry of the
\* previous live.json whose dam was not fetched in this run is kept as it
\* was, the entry of every fetched dam is the one built in this run, and no
\* dam of the previous live.json is missing.
C8_LivePartialFailure ==
  [][ (pc = "live" /\ rev = "six-dam") =>
        /\ \A e \in liveEntries(live) :
             e.id \notin fetchedIds => e \in liveEntries(live')
        /\ \A i \in 1 .. Len(dams) :
             /\ latestOnly(dams[i]) \in liveEntries(live')
             /\ \A e \in liveEntries(live') : e.id = dams[i].id => e = latestOnly(dams[i])
        /\ \A e \in liveEntries(live) :
             \E f \in liveEntries(live') : f.id = e.id ]_vars

\* live.json was rewritten by a run that fetched one dam only and holds the
\* other dam's entry of an earlier run
C8_Witness ==
  /\ rev = "six-dam"
  /\ RunEnded
  /\ dataChanged
  /\ Len(dams) = 1
  /\ live # << >>
  /\ \E e \in liveEntries(live) : e.id \notin fetchedIds

\* ------------------------------------------------------------------- C9
\* C9 (five-dam revision): in every live.json a run writes, each dam appears
\* at most once, each entry's data array holds exactly one record, and a dam
\* of the previous live.json that failed in this run is still present.
C9_LiveShape ==
  [][ (pc = "live" /\ rev = "five-dam") =>
        /\ \A i, j \in 1 .. Len(live'[1].dams) :
             i # j => live'[1].dams[i].id # live'[1].dams[j].id
        /\ \A i \in 1 .. Len(live'[1].dams) : Len(live'[1].dams[i].data) = 1
        /\ \A e \in liveEntries(live) :
             \E f \in liveEntries(live') : f.id = e.id ]_vars

\* ------------------------------------------------------------------ C10
\* C10 (six-dam revision): after a run that rewrote live.json, the single
\* record of every refreshed dam's live entry is element 0 of that dam's
\* history as written in the same run.
C10_LiveFreshness ==
  (rev = "six-dam" /\ RunEnded /\ dataChanged) =>
    \A i \in 1 .. Len(dams) :
      \A e \in liveEntries(live) :
        e.id = dams[i].id =>
          e.data = << files[dams[i].name][1].data[1] >>

\* ------------------------------------------------------------------ C11
\* C11: when reading or parsing one history file fails while the histories
\* are loaded, every other existing history file is loaded (at most the
\* failing file is missing from existingData), and no step of the run
\* removes a source timestamp from a persisted history.
C11_ReadFailureConfined ==
  [][ /\ pc = "load" =>
           Cardinality({ n \in existingFiles : existingData'[n] = << >> }) <= 1
      /\ \A n \in existingFiles :
           /\ files'[n] # << >>
           /\ timestampsOf(files[n][1].data)
                 \subseteq timestampsOf(files'[n][1].data) ]_vars

\* ------------------------------------------------------------------ C12
\* C12: a run that completes exits with code 0, also when some dams failed,
\* and a run ended by a catastrophic error (the history folder can be
\* neither accessed nor created) exits with a code other than 0.
C12_ExitStatus ==
  /\ (pc = "idle" /\ runs > 0) => exitCode = << 0 >>
  /\ pc = "failed" => (exitCode # << >> /\ exitCode # << 0 >>)

\* ------------------------------------------------------------------ C13
\* the number a string of toFixed(2) stands for, in hundredths
parseFixed2(str) == CHOOSE h \in 0 .. 20000 : toFixed2(h) = str

isStorageCall == call.fn = "calculateStoragePercentage"

\* C13: for every dam spec, calculateStoragePercentage returns 0.00 for a
\* level at or below deadStorageLevel and 100.00 at floodPool, and over
\* [deadStorageLevel, floodPool] its result lies in [0, 100] and is not below
\* the result for any lower level of that range.
C13_StorageCurve ==
  isStorageCall =>
    LET specs == call.specs
        level == call.waterLevel
    IN /\ level <= specs.deadStorageLevel => call.ret = "0.00"
       /\ level = specs.floodPool => call.ret = "100.00"
       /\ (specs.deadStorageLevel <= level /\ level <= specs.floodPool) =>
            LET percentage == parseFixed2(call.ret)
            IN /\ percentage >= 0
               /\ percentage <= 10000
               /\ \A lower \in levelsOffered(specs) :
                    (specs.deadStorageLevel <= lower /\ lower <= level) =>
                      storagePercentageOf(rev, lower, specs, call.damName)
                        <= percentage

\* the curve was asked for a level strictly inside the pool and answered
\* with a percentage strictly between 0 and 100
C13_Witness ==
  /\ isStorageCall
  /\ call.specs.deadStorageLevel < call.waterLevel
  /\ call.waterLevel < call.specs.floodPool
  /\ call.ret \notin { "0.00", "100.00" }

\* ------------------------------------------------------------------ C14
isFetchCall == call.fn = "fetchDamData"

\* the records of the call of fetchDamData, none when it returned null
recordsReturned == IF call.ret = << >> THEN {} ELSE recordsOf(call.ret[1].data)

\* the integer a string of Math.round(x).toString() stands for
parseRound(str) == CHOOSE n \in -100 .. 100 : ToString(n) = str

\* the reading of metric m at the hour of record r, 0 when there is none
readingAt(m, r) ==
  LET key == KeyOf(r.timestamp)
  IN IF key \in DOMAIN call.usaceData[m] THEN numberOf(call.usaceData[m][key]) ELSE 0

\* C14: every record assembled by fetchDamData has totalOutflow >=
\* spillwayRelease, whichever of the outflow and spillway readings are
\* present at its hour.
C14_OutflowInvariant ==
  isFetchCall =>
    \A r \in recordsReturned :
      parseRound(r.totalOutflow) >= parseRound(r.spillwayRelease)

\* ------------------------------------------------------------------ C15
\* C15: in every assembled record powerHouseDischarge is totalOutflow -
\* spillwayRelease when totalOutflow >= spillwayRelease and 0 otherwise,
\* netFlow is inflow - totalOutflow, and turbineEfficiency is the zero
\* value whenever the turbine flow is 0; a metric without a reading at the
\* hour counts as 0.  The formulas are over the readings of the hour and
\* each field holds its result rounded as the record rounds it.
C15_DerivedFlows ==
  isFetchCall =>
    \A r \in recordsReturned :
      LET inflow       == readingAt("inflow", r)
          totalOutflow == readingAt("outflow", r)
          spillway     == readingAt("spillway", r)
          turbineFlow  == IF totalOutflow >= spillway
                          THEN totalOutflow - spillway ELSE 0
      IN /\ parseRound(r.powerHouseDischarge) = MathRound(turbineFlow)
         /\ r.netFlow = MathRound(inflow - totalOutflow)
         /\ turbineFlow = 0 => r.turbineEfficiency = "0.000"
         /\ r.turbineEfficiency \notin { "Infinity", "-Infinity", "NaN" }

\* a record with outflow above spillway and one without an outflow reading
\* but with inflow: a positive turbine flow, and a negative or positive net flow
C15_Witness ==
  /\ isFetchCall
  /\ \E r \in recordsReturned :
       /\ readingAt("outflow", r) > readingAt("spillway", r)
       /\ readingAt("spillway", r) > 0
       /\ readingAt("power", r) > 0
       /\ r.powerHouseDischarge = "10"
       /\ r.netFlow = 2
       /\ r.turbineEfficiency # "0.000"

\* ------------------------------------------------------------------ C17
\* the call of fetchDamData was given a reading with a null value
hasNullReading ==
  \E m \in DOMAIN call.usaceData : \E k \in DOMAIN call.usaceData[m] :
    ~hasValue(call.usaceData[m][k])

\* C17: fetchDamData emits no record for an hour whose water-level reading
\* is absent, null, zero or negative, and every record has a water level
\* above 0; the absence of other metrics suppresses no record: when every
\* reading present carries a number, a record is emitted for exactly the
\* hours with a water level above 0 and the call returns null exactly when
\* there is no such hour.
C17_WaterLevelMandatory ==
  isFetchCall =>
    LET waterLevel == call.usaceData.waterLevel
        valid == { k \in DOMAIN waterLevel : numberOf(waterLevel[k]) > 0 }
    IN /\ { r.timestamp : r \in recordsReturned }
            \subseteq { waterLevel[k].originalTimestamp : k \in valid }
       /\ Cardinality(recordsReturned) <= Cardinality(valid)
       /\ \A r \in recordsReturned :
            /\ readingAt("waterLevel", r) > 0
            /\ r.waterLevel = toFixed2(readingAt("waterLevel", r))
       /\ ~hasNullReading =>
            /\ (call.ret = << >>) <=> (valid = {})
            /\ { r.timestamp : r \in recordsReturned }
                 = { waterLevel[k].originalTimestamp : k \in valid }
            /\ Cardinality(recordsReturned) = Cardinality(valid)

\* one hour has a water level and no other metric, another hour has other
\* metrics but a water level of zero: one record is returned
C17_Witness ==
  /\ isFetchCall
  /\ Cardinality(recordsReturned) = 1
  /\ ~hasNullReading
  /\ \E k \in DOMAIN call.usaceData.waterLevel :
       /\ call.usaceData.waterLevel[k].value <= 0
       /\ k \in DOMAIN call.usaceData.inflow
       /\ k \in DOMAIN call.usaceData.precipitation
  /\ \E k \in DOMAIN call.usaceData.waterLevel :
       /\ call.usaceData.waterLevel[k].value > 0
       /\ \A m \in DOMAIN call.usaceData :
            m # "waterLevel" => k \notin DOMAIN call.usaceData[m]

\* a null water level with other metrics at its hour: no record for it
C17_WitnessNull ==
  /\ isFetchCall
  /\ \E k \in DOMAIN call.usaceData.waterLevel :
       /\ ~hasValue(call.usaceData.waterLevel[k])
       /\ k \in DOMAIN call.usaceData.outflow
  /\ Cardinality(recordsReturned) = 1

\* ------------------------------------------------------------------ C19
\* C19: the liveStorage of every assembled record is the value
\* calculateLiveStorage returns for the record's water level and dam,
\* whether or not the provider's storage series has a reading at the hour.
C19_LiveStorageDerived ==
  isFetchCall =>
    \A r \in recordsReturned :
      r.liveStorage = calculateLiveStorage(readingAt("waterLevel", r),
                                           damSpecs(rev, call.damName),
                                           call.damName)

\* ------------------------------------------------------------------ C16
isIncrementalCall == call.fn = "processIncrementalRainfall"

\* the keys of the precipitation map earlier than key t
readingsBefore(t) == { u \in DOMAIN call.precipitationMap : u < t }

\* the latest key of a non-empty set of keys
latestOf(keys) == CHOOSE u \in keys : \A v \in keys : v <= u

\* C16: every value of the incremental map processIncrementalRainfall
\* returns is >= 0, a reading below the reading before it gives 0, and the
\* earliest timestamp that has a reading has increment 0.
C16_RainfallNonNegative ==
  isIncrementalCall =>
    LET precipitationMap == call.precipitationMap
        incrementalMap   == call.ret.incrementalMap
    IN /\ \A t \in DOMAIN incrementalMap : incrementalMap[t].value >= 0
       /\ \A t \in DOMAIN precipitationMap :
            /\ t \in DOMAIN incrementalMap
            /\ readingsBefore(t) = {} => incrementalMap[t].value = 0
            /\ (readingsBefore(t) # {}
                  /\ precipitationMap[t].value
                       < precipitationMap[latestOf(readingsBefore(t))].value)
                 => incrementalMap[t].value = 0

\* the cumulative counter went down between two readings
C16_Witness ==
  /\ isIncrementalCall
  /\ \E t \in DOMAIN call.precipitationMap :
       /\ readingsBefore(t) # {}
       /\ call.precipitationMap[t].value
            < call.precipitationMap[latestOf(readingsBefore(t))].value
       /\ call.ret.incrementalMap[t].value = 0

isForwardFillCall == call.fn = "forwardFillRainfall"

\* C20: forwardFillRainfall gives every timestamp of the union that has no
\* reading the reading of the latest earlier timestamp that has one, leaves
\* a timestamp earlier than every reading out of the filled map, returns the
\* readings unchanged, and counts in fillCount the timestamps it filled.
C20_ForwardFill ==
  isForwardFillCall =>
    LET precipitationMap == call.precipitationMap
        filledMap        == call.ret.filledMap
    IN /\ \A t \in DOMAIN precipitationMap :
            t \in DOMAIN filledMap /\ filledMap[t] = precipitationMap[t]
       /\ \A t \in call.allTimestamps \ DOMAIN precipitationMap :
            IF readingsBefore(t) = {}
            THEN t \notin DOMAIN filledMap
            ELSE /\ t \in DOMAIN filledMap
                 /\ filledMap[t] = precipitationMap[latestOf(readingsBefore(t))]
       /\ DOMAIN filledMap \subseteq call.allTimestamps
       /\ call.ret.fillCount
            = Cardinality(DOMAIN filledMap \ DOMAIN precipitationMap)

\* one timestamp lies before the first reading and stays absent, another
\* follows two readings and is filled
C20_Witness ==
  /\ isForwardFillCall
  /\ call.ret.fillCount = 1
  /\ \E t \in call.allTimestamps :
       t \notin DOMAIN call.ret.filledMap
  /\ \E t \in (DOMAIN call.ret.filledMap) \ DOMAIN call.precipitationMap :
       readingsBefore(t) # {}

\* ------------------------------------------------------------------ C23
\* the hours of the call whose water-level reading is above 0
validHours ==
  { k \in DOMAIN call.usaceData.waterLevel :
      numberOf(call.usaceData.waterLevel[k]) > 0 }

\* C23: when one reading of any metric, precipitation included, carries a
\* null value, fetchDamData still returns a record for every hour that has
\* a water level above 0; it does not return null for the whole dam.
C23_AbsentValuesLocal ==
  (isFetchCall /\ hasNullReading) =>
    \A k \in validHours :
      \E r \in recordsReturned :
        r.timestamp = call.usaceData.waterLevel[k].originalTimestamp

\* ------------------------------------------------------------------ C27
\* the hour key a record was assembled for, read from its date and time
hourOf(r) ==
  CHOOSE k \in allTimestampsOf(call.usaceData) :
    /\ r.date = ToString(k \div 24)
    /\ r.time = Pad2(k % 24) \o ":00"

\* C27: the timestamp of every record fetchDamData emits is the source
\* timestamp of the water-level reading of the record's hour, also when the
\* inflow or outflow reading of that hour has another source timestamp;
\* the instant written from the hour key is never used.
C27_SourceTimestamp ==
  isFetchCall =>
    \A r \in recordsReturned :
      LET k == hourOf(r)
      IN /\ k \in DOMAIN call.usaceData.waterLevel
         /\ r.timestamp = call.usaceData.waterLevel[k].originalTimestamp
         /\ KeyOf(r.timestamp) = k

\* a record of an hour whose inflow reading was taken at another instant
\* than its water-level reading
C27_Witness ==
  /\ isFetchCall
  /\ \E r \in recordsReturned :
       /\ hourOf(r) \in DOMAIN call.usaceData.inflow
       /\ call.usaceData.inflow[hourOf(r)].originalTimestamp # r.timestamp

\* ------------------------------------------------------------------ C28
RECURSIVE sumOfValues(_, _)
\* the sum of the values of the entries of map at the keys of `keys`
sumOfValues(map, keys) ==
  IF keys = {} THEN 0
  ELSE LET k == CHOOSE x \in keys : TRUE
       IN map[k].value + sumOfValues(map, keys \ { k })

\* the earliest key of a non-empty set of keys
earliestOf(keys) == CHOOSE u \in keys : \A v \in keys : u <= v

\* C28: the increments processIncrementalRainfall returns add up to the
\* last reading minus the first when the cumulative readings never go down,
\* to at least that much for any series, and a timestamp that got its
\* reading by forward-fill has increment 0.
C28_RainfallConservation ==
  (isIncrementalCall /\ call.precipitationMap # EmptyMap) =>
    LET precipitationMap == call.precipitationMap
        incrementalMap   == call.ret.incrementalMap
        readings         == DOMAIN precipitationMap
        total            == sumOfValues(incrementalMap, DOMAIN incrementalMap)
        rise             == precipitationMap[latestOf(readings)].value
                              - precipitationMap[earliestOf(readings)].value
        neverDown        == \A t, u \in readings :
                              t < u => precipitationMap[t].value
                                         <= precipitationMap[u].value
    IN /\ neverDown => total = rise
       /\ total >= rise
       /\ \A t \in (DOMAIN incrementalMap) \ readings : incrementalMap[t].value = 0

\* the counter rose from 0.05 in to 0.12 in over three hours, the hour in
\* between was filled: the increments are 0, 0 and 0.07 in
C28_Witness ==
  /\ isIncrementalCall
  /\ Cardinality(DOMAIN call.precipitationMap) = 2
  /\ Cardinality(DOMAIN call.ret.incrementalMap) = 3
  /\ call.ret.fillCount = 1
  /\ sumOfValues(call.ret.incrementalMap, DOMAIN call.ret.incrementalMap) = 7

\* ------------------------------------------------------------------ C24
isMergeCall == call.fn = "mergeDam"

\* the history of the merged dam after the call
mergedDam == call.ret.existingData[call.newDam.name][1]

\* C24: for a dam with a history, the merge overwrites the spec fields of
\* the history with the values of the fetched dam when at least one record
\* was inserted or replaced, and leaves them as they were when none was.
C24_SpecRefresh ==
  isMergeCall =>
    LET changed == mergedDam.data # call.existingDam.data
    IN /\ changed = call.ret.dataChanged
       /\ changed => /\ mergedDam.id = call.newDam.id
                      /\ mergedDam.MWL = call.newDam.MWL
       /\ ~changed => /\ mergedDam.id = call.existingDam.id
                       /\ mergedDam.MWL = call.existingDam.MWL
       /\ mergedDam.name = call.existingDam.name

\* a history carrying another MWL than this run's got a new record and its
\* MWL is now the run's
C24_Witness ==
  /\ isMergeCall
  /\ call.ret.dataChanged
  /\ call.existingDam.MWL # call.newDam.MWL
  /\ mergedDam.MWL = call.newDam.MWL
  /\ Len(mergedDam.data) > Len(call.existingDam.data)

\* a history carrying another MWL than this run's keeps it: the run fetched
\* nothing new
C24_WitnessKept ==
  /\ isMergeCall
  /\ ~call.ret.dataChanged
  /\ call.existingDam.MWL # call.newDam.MWL
  /\ mergedDam.MWL = call.existingDam.MWL

\* ------------------------------------------------------------------ C26
\* the merge loop has gone through every fetched dam: each has a history in
\* existingData that holds its records' source timestamps
mergeFinished ==
  \A i \in 1 .. Len(dams) :
    /\ existingData[dams[i].name] # << >>
    /\ timestampsOf(dams[i].data)
          \subseteq timestampsOf(existingData[dams[i].name][1].data)

\* the positions of live.json among the writes of the run
liveWrites(log) == { i \in 1 .. Len(log) : log[i] = "live.json" }

\* C26: within a run no history file and no live.json is written, and no
\* persisted content changes, before the merge loop has finished for every
\* fetched dam; live.json is written at most once per run, as the last
\* write, after a write of every history held in memory has been tried.
C26_WriteOrdering ==
  [][ /\ (written' # written /\ written' # << >>) => mergeFinished
      /\ (files' # files \/ live' # live) => (written' # written /\ mergeFinished)
      /\ Cardinality(liveWrites(written')) <= 1
      /\ \A i \in liveWrites(written') :
           /\ i = Len(written')
           /\ { written'[j] : j \in 1 .. (i - 1) }
                = { n \in DisplayNames : existingData'[n] # << >> } ]_vars

\* a run has written the histories of both dams and then live.json
C26_Witness ==
  /\ RunEnded
  /\ Len(written) = Len(damNames) + 1
  /\ written[Len(written)] = "live.json"

\* ------------------------------------------------------------------ C29
\* the names of the files a run has called writeFile for
writtenNames(log) == { log[i] : i \in 1 .. Len(log) }

\* C29: while dataChanged is false no file is written and persisted
\* content stays as it is, and a run whose merge loop ends with dataChanged
\* false ends without a write; when the loop ends with dataChanged true the
\* run goes on to the save loop, which writes every history of
\* existingData, those of the dams that did not change included.
C29_NoChangeNoWrite ==
  [][ /\ ~dataChanged' => (files' = files /\ live' = live /\ written' = << >>)
      /\ (pc = "merge" /\ pc' # "merge") =>
           IF dataChanged' THEN pc' = "save" ELSE (pc' = "idle" /\ written' = << >>)
      /\ pc = "save" =>
           \A n \in DisplayNames :
             existingData[n] # << >> =>
               (files'[n] = existingData[n] /\ n \in writtenNames(written')) ]_vars

\* a second run has fetched records for every dam with a history, all of
\* them stored already, and has ended without a write
C29_Witness ==
  /\ RunEnded
  /\ runs >= 2
  /\ ~dataChanged
  /\ written = << >>
  /\ Len(dams) = Len(damNames)
  /\ \A i \in 1 .. Len(dams) : files[dams[i].name] # << >>

\* a run has written the history of a dam it did not fetch, as loaded
C29_WitnessUnchangedWritten ==
  /\ RunEnded
  /\ dataChanged
  /\ \E n \in DisplayNames :
       /\ n \notin fetchedNames
       /\ n \in writtenNames(written)

\* ------------------------------------------------------------------ C21
isAdapterCall == call.fn = "fetchUSACEData"

\* fetchUSACEData has returned the Map it built from the values array
returnedFromValues ==
  /\ isAdapterCall
  /\ call.at = "returned"
  /\ call.values # << >>
  /\ call.ret = dataMapIn(call.zone, call.values)

\* the readings of the answer whose timestamp parses to an instant
datedReadings ==
  { call.values[i] : i \in { j \in 1 .. Len(call.values) : hasTimestamp(call.values[j]) } }

\* the clock hour of an instant shifted by the fixed offset of 5 hours
clockHour(reading) == (reading.timestamp - OffsetMin) \div HourLen

\* the key fetchUSACEData has set the reading under
keyAssigned(reading) == keyString(call.zone, reading)

\* C21: the key fetchUSACEData assigns to a reading depends only on the clock
\* hour of its instant shifted by 5 hours: readings of one clock hour have
\* the same key, readings of different clock hours have different keys, and
\* the string order of the keys is the order of the hours.
C21_HourlyCanonicalKey ==
  returnedFromValues =>
    \A r1, r2 \in datedReadings :
      /\ keyAssigned(r1) \in DOMAIN call.ret
      /\ (clockHour(r1) = clockHour(r2)) <=> (keyAssigned(r1) = keyAssigned(r2))
      /\ (clockHour(r1) < clockHour(r2))
           <=> StringLess(keyAssigned(r1), keyAssigned(r2))

\* ------------------------------------------------------------------ C22
\* C22: a reading whose timestamp does not parse to an instant is dropped by
\* fetchUSACEData: the Map returned is the one built from the other readings
\* of the answer, and all its keys are hour keys of parsed instants.
C22_MalformedDiscarded ==
  returnedFromValues =>
    /\ call.ret = dataMapIn(call.zone, SelectSeq(call.values, hasTimestamp))
    /\ \A k \in DOMAIN call.ret : \E r \in datedReadings : k = keyAssigned(r)

\* ------------------------------------------------------------------ C25
\* the outcomes of a request that give the adapter no values array
failureKinds == { "error", "timeout", "status", "unparsable", "noValues" }

\* a Map of the adapter: keys are key strings, entries hold at most a value
\* and the original timestamp
isMap(dataMap) ==
  \A k \in DOMAIN dataMap :
    /\ Len(k) > 0
    /\ DOMAIN dataMap[k] \subseteq { "value", "originalTimestamp" }

\* C25: whatever the outcome of the request, of the retries and of the
\* weather-service fallback, a call of fetchUSACEData is awaiting or has
\* returned a Map and has never been rejected; after a failed request without
\* fallback the Map is empty.
C25_AdaptersNeverRaise ==
  isAdapterCall =>
    /\ call.at \in { "request", "nws", "returned" }
    /\ call.at = "returned" => isMap(call.ret)
    /\ (call.at = "returned" /\ call.settled \in failureKinds /\ call.fallbacks = 0)
         => call.ret = EmptyMap
    /\ (call.at = "returned" /\ call.fallbacks > 0 /\ call.nwsSettled # "stations")
         => call.ret = EmptyMap

\* a call whose last request failed has returned the empty Map
C25_Witness ==
  /\ isAdapterCall
  /\ call.at = "returned"
  /\ call.settled \in { "error", "timeout" }
  /\ call.fallbacks = 0
  /\ call.ret = EmptyMap

\* a precipitation call whose request and whose fallback failed has returned
C25_WitnessFallback ==
  /\ isAdapterCall
  /\ call.at = "returned"
  /\ call.parameter = "Precipitation"
  /\ call.settled \in failureKinds
  /\ call.nwsSettled \in { "pointFailed", "stationsFailed", "noStations" }
  /\ call.ret = EmptyMap

\* ------------------------------------------------------------------ C30
\* the requests a call has made stay within its bound: three for the flow
\* metrics of the six-dam revision, one for every other call
withinBound ==
  isAdapterCall =>
    /\ call.requests <= (IF rev = "six-dam" /\ isCriticalFlowData(call.parameter)
                         THEN 3 ELSE 1)
    /\ call.retryCount <= 2
    /\ call.requests = call.retryCount + (IF call.at = "request" THEN 0 ELSE 1)
    /\ call.fallbacks <= 1
    /\ call.fallbacks = 1 =>
         /\ rev = "six-dam"
         /\ call.parameter = "Precipitation"
         /\ call.requests = 1
         /\ call.settled \in failureKinds
    /\ (call.at = "returned" /\ ~isCriticalFlowData(call.parameter))
         => call.requests = 1
    /\ (call.at = "nws") => call.requests = 1

\* C30: one call of fetchUSACEData requests Inflow or Total Outflow at most
\* three times (the first attempt and at most two retries), requests every
\* other metric exactly once, hands a failed Precipitation request to the
\* weather-service fallback without a retry, and eventually returns.
C30_BoundedRetries ==
  /\ [] withinBound
  /\ isAdapterCall ~> (isAdapterCall /\ call.at = "returned")

\* a flow metric has returned after its third request
C30_Witness ==
  /\ isAdapterCall
  /\ call.at = "returned"
  /\ isCriticalFlowData(call.parameter)
  /\ call.requests = 3

\* a failed Precipitation request has returned through the fallback
C30_WitnessFallback ==
  /\ isAdapterCall
  /\ call.at = "returned"
  /\ call.parameter = "Precipitation"
  /\ call.fallbacks = 1
  /\ call.ret # EmptyMap

====
